---- MODULE Spec2Model ----
(***************************************************************************)
(* A model of parley's font registry (FontCollection::add_fonts), family   *)
(* matcher (FontFamily::query), style interner (ResolveContext), ranged    *)
(* builder (LayoutContext, RangedBuilder), fallback cache (FontCache),     *)
(* line breaker, layout, runs and cursor.                                  *)
(***************************************************************************)
EXTENDS Integers, Sequences, FiniteSets, TLC

VARIABLES
    families,      \* FontCollection.families : sequence of FontFamily
    family_map,    \* FontCollection.family_map : name -> FamilyId
    fonts,         \* FontCollection.fonts : sequence of Font
    data,          \* FontCollection.data : sequence of blobs
    call,          \* what FontDataRef made of the blob of the last add_fonts call
    ret,           \* what the last add_fonts call returned: None or Some(count)
    q,             \* the last FontFamily::query since the last registration
    rcx,           \* ResolveContext: the caches families, variations, features
    building,      \* a RangedBuilder borrows the two contexts
    hist,          \* the resolve calls of the current build, with their handles
    rb,            \* RangedBuilder: text and scale
    rsb,           \* LayoutContext.rsb : RangedStyleBuilder
    styles,        \* LayoutContext.styles : the spans of the last finish
    info,          \* LayoutContext.info : (CharInfo, style index) per character
    bidi,          \* LayoutContext.bidi : levels and base level
    font_cache,    \* FontContext.cache : the fallback cache
    layout,        \* the caller's Layout (LayoutData)
    obs,           \* what the caller saw of the last build call
    cursor,        \* the last Cursor made from the layout, and from what
    mapped,        \* the last FontCache::map_cluster call: inputs, walk, result
    got,           \* the last Run::get call: the run, the index, the result
    breaker        \* BreakLines: the lines closed so far and the line being filled

cvars == <<families, family_map, fonts, data, call, ret>>
rvars == <<rcx, building, hist>>
lvars == <<rb, rsb, styles, info, bidi, font_cache, layout, obs, cursor, mapped, got, breaker>>
vars == <<families, family_map, fonts, data, call, ret, q, rcx, building, hist,
          rb, rsb, styles, info, bidi, font_cache, layout, obs, cursor, mapped, got, breaker>>

\* Option<T>
None == <<>>
Some(x) == <<x>>

\* ------------------------------------------------------------------------
\* swash attribute values
\* ------------------------------------------------------------------------
STRETCH_ULTRA_CONDENSED == 0
STRETCH_SEMI_CONDENSED == 75
STRETCH_NORMAL == 100
STRETCH_SEMI_EXPANDED == 125
STRETCH_ULTRA_EXPANDED == 300

StyleNormal == [kind |-> "Normal", angle |-> 0]
StyleItalic == [kind |-> "Italic", angle |-> 0]
StyleOblique(a) == [kind |-> "Oblique", angle |-> a]

\* A face slot of a parsed blob: FontDataRef::get(index) is None for an
\* unreadable slot, and a font with these attributes otherwise.
Unreadable == [readable |-> FALSE, stretch |-> 0, weight |-> 0, style |-> StyleNormal]
Face(s, w, st) == [readable |-> TRUE, stretch |-> s, weight |-> w, style |-> st]

\* Attributes::parts
Triple(e) == <<e.stretch, e.weight, e.style>>

\* A blob of bytes, by what FontDataRef makes of it: parsed = FALSE when
\* FontDataRef::new returns None, else the face slots 0..len-1.
Malformed == [parsed |-> FALSE, faces |-> <<>>]
Blob(faces) == [parsed |-> TRUE, faces |-> faces]

\* ------------------------------------------------------------------------
\* Bounds
\* ------------------------------------------------------------------------
MaxFonts == 2        \* calls that would register more fonts than this are not offered

\* ------------------------------------------------------------------------
\* FontCollection::add_fonts
\* ------------------------------------------------------------------------
InsertAt(s, i, e) == SubSeq(s, 1, i) \o <<e>> \o SubSeq(s, i + 1, Len(s))

\* The duplicate test of add_fonts: some member has the same triple.
HasTripleAfterFirst(members, stretch, weight, style) ==
    \E k \in 2..Len(members) :
        /\ members[k].stretch = stretch
        /\ members[k].weight = weight
        /\ members[k].style = style
HasTriple(members, stretch, weight, style) ==
    \E k \in 1..Len(members) :
        /\ members[k].stretch = stretch
        /\ members[k].weight = weight
        /\ members[k].style = style

\* slice::binary_search_by(|e| e.weight.cmp(&weight)) on a list sorted by
\* weight, as 0-based insertion positions. With a match it is Ok(index) of a
\* matching element; which one is unspecified when several match, so every
\* matching index is possible. Without a match it is Err(index) of the
\* position that keeps the list sorted.
BinarySearchByWeight(members, weight) ==
    LET oks == {k - 1 : k \in {j \in 1..Len(members) : members[j].weight = weight}}
    IN  IF oks # {}
        THEN oks
        ELSE {Cardinality({j \in 1..Len(members) : members[j].weight < weight})}

\* The state add_fonts works on: the collection and the locals of the call.
\* One pass of the loop body for the 0-based face `index`; the result is the
\* set of states the pass can end in.
FaceStep(st, name, blob, index) ==
    LET slot == blob.faces[index + 1] IN
    IF ~slot.readable THEN {st}
    ELSE
    LET font_id == Len(st.fonts)
        known == name \in DOMAIN st.family_map
        family_id == IF known THEN st.family_map[name] ELSE Len(st.families)
        fams1 == IF known THEN st.families
                 ELSE Append(st.families,
                        [id |-> family_id, name |-> name,
                         has_stretch |-> FALSE, fonts |-> <<>>])
        fmap1 == IF known THEN st.family_map
                 ELSE [n \in DOMAIN st.family_map \cup {name} |->
                          IF n = name THEN family_id ELSE st.family_map[n]]
        family == fams1[family_id + 1]
        st1 == [st EXCEPT !.families = fams1, !.family_map = fmap1]
    IN
    IF HasTriple(family.fonts, slot.stretch, slot.weight, slot.style)
    THEN {st1}
    ELSE
    LET data1 == IF st.data_added THEN st.data ELSE Append(st.data, blob)
        elem == [font_id |-> font_id, stretch |-> slot.stretch,
                 weight |-> slot.weight, style |-> slot.style]
        font == [id |-> font_id, family_id |-> family_id, data_id |-> st.data_id,
                 index |-> index,
                 attributes |-> [stretch |-> slot.stretch, weight |-> slot.weight,
                                 style |-> slot.style]]
    IN  { [st1 EXCEPT
             !.families[family_id + 1] =
                 [family EXCEPT
                    !.has_stretch = family.has_stretch \/ slot.stretch # STRETCH_NORMAL,
                    !.fonts = InsertAt(family.fonts, pos, elem)],
             !.data = data1,
             !.data_added = TRUE,
             !.fonts = Append(st.fonts, font),
             !.count = st.count + 1]
          : pos \in BinarySearchByWeight(family.fonts, slot.weight) }

RECURSIVE FaceLoop(_, _, _, _)
FaceLoop(sts, name, blob, index) ==
    IF index >= Len(blob.faces) THEN sts
    ELSE FaceLoop(UNION {FaceStep(st, name, blob, index) : st \in sts},
                  name, blob, index + 1)

\* The DataId add_fonts takes for the blob before its loop.
NewDataIdOneBased(d) == Len(d) + 1
NewDataId(d) == Len(d)

\* The early returns of add_fonts: the blob does not parse, or has no faces.
RejectsUnparsedOnly(blob) == ~blob.parsed
Rejects(blob) == ~blob.parsed \/ Len(blob.faces) = 0

\* The outcomes of add_fonts(name, blob) on the collection c: the collection
\* after the call and the returned value.
AddFontsOutcomes(c, name, blob) ==
    IF Rejects(blob)
    THEN {[families |-> c.families, family_map |-> c.family_map,
           fonts |-> c.fonts, data |-> c.data, ret |-> None]}
    ELSE
    LET st0 == [families |-> c.families, family_map |-> c.family_map,
                fonts |-> c.fonts, data |-> c.data,
                data_id |-> NewDataId(c.data), data_added |-> FALSE, count |-> 0]
    IN  { [families |-> st.families, family_map |-> st.family_map,
           fonts |-> st.fonts, data |-> st.data, ret |-> Some(st.count)]
          : st \in FaceLoop({st0}, name, blob, 0) }

Collection == [families |-> families, family_map |-> family_map,
               fonts |-> fonts, data |-> data]

NoQuery == [made |-> FALSE]
NoCall == [parsed |-> FALSE, empty |-> FALSE, readable |-> 0, made |-> FALSE]
ReadableSlots(blob) == {k \in 1..Len(blob.faces) : blob.faces[k].readable}
CallInfo(blob) ==
    [parsed |-> blob.parsed, empty |-> Len(blob.faces) = 0,
     readable |-> Cardinality(ReadableSlots(blob)), made |-> TRUE]

add_fonts(name, blob) ==
    /\ \E out \in AddFontsOutcomes(Collection, name, blob) :
         /\ Len(out.fonts) <= MaxFonts
         /\ families' = out.families
         /\ family_map' = out.family_map
         /\ fonts' = out.fonts
         /\ data' = out.data
         /\ ret' = out.ret
    /\ call' = CallInfo(blob)
    /\ q' = NoQuery
    /\ UNCHANGED <<rvars, lvars>>

\* ------------------------------------------------------------------------
\* FontFamily::query
\* ------------------------------------------------------------------------
I32_MAX == 2147483647
Abs(x) == IF x < 0 THEN 0 - x ELSE x
MinOf(S) == CHOOSE x \in S : \A y \in S : x <= y
MaxOf(S) == CHOOSE x \in S : \A y \in S : y <= x

\* The value a member's stretch is compared by: for a request <= NORMAL the
\* members above NORMAL, and for a request > NORMAL the members below NORMAL,
\* are moved by ULTRA_EXPANDED - NORMAL.
ReflectedStretch(font_stretch, stretch) ==
    IF stretch <= STRETCH_NORMAL
    THEN IF font_stretch > STRETCH_NORMAL
         THEN font_stretch - STRETCH_NORMAL + STRETCH_ULTRA_EXPANDED
         ELSE font_stretch
    ELSE IF font_stretch < STRETCH_NORMAL
         THEN font_stretch - STRETCH_NORMAL + STRETCH_ULTRA_EXPANDED
         ELSE font_stretch

\* The loops over the members that keep the first stretch of least distance.
RECURSIVE StretchLoop(_, _, _, _, _)
StretchLoop(members, k, stretch, min_stretch_dist, matching_stretch) ==
    IF k > Len(members) THEN matching_stretch
    ELSE LET offset == Abs(ReflectedStretch(members[k].stretch, stretch) - stretch)
         IN  IF offset < min_stretch_dist
             THEN StretchLoop(members, k + 1, stretch, offset, members[k].stretch)
             ELSE StretchLoop(members, k + 1, stretch, min_stretch_dist, matching_stretch)

MatchingStretch(family, stretch) ==
    IF family.has_stretch
    THEN StretchLoop(family.fonts, 1, stretch, I32_MAX, STRETCH_NORMAL)
    ELSE STRETCH_NORMAL

\* The style each arm of the match starts from: what is left when the
\* members of the matched stretch hold neither of the two preferred classes.
DefaultStyleItalic(style) == StyleItalic
DefaultStyle(style) ==
    IF style.kind = "Normal" THEN StyleItalic ELSE StyleNormal

\* The class each arm records without leaving its loop.
SecondKind(style) ==
    IF style.kind = "Oblique" THEN "Italic" ELSE "Oblique"

\* The loop of one arm over the members of the matched stretch: a member of
\* the requested class sets matching_style to the requested style and leaves
\* the loop; a member of the second class sets it to that member's style.
RECURSIVE StyleLoop(_, _, _, _, _)
StyleLoop(members, k, style, matching_stretch, matching_style) ==
    IF k > Len(members) THEN matching_style
    ELSE IF members[k].stretch # matching_stretch
    THEN StyleLoop(members, k + 1, style, matching_stretch, matching_style)
    ELSE IF members[k].style.kind = style.kind
    THEN style
    ELSE IF members[k].style.kind = SecondKind(style)
    THEN StyleLoop(members, k + 1, style, matching_stretch, members[k].style)
    ELSE StyleLoop(members, k + 1, style, matching_stretch, matching_style)

MatchingStyle(family, style, matching_stretch) ==
    StyleLoop(family.fonts, 1, style, matching_stretch, DefaultStyle(style))

\* iter().filter(..).next() and iter().rev().filter(..).next() over the
\* positions the filter lets through.
FirstOfForward(members, idx) ==
    IF idx = {} THEN None ELSE Some(members[MinOf(idx)].font_id)
FirstOf(members, idx) ==
    IF idx = {} THEN None ELSE Some(members[MinOf(idx)].font_id)
FirstOfRev(members, idx) ==
    IF idx = {} THEN None ELSE Some(members[MaxOf(idx)].font_id)

\* The three weight branches on the members of the matched stretch and style.
MatchWeight(family, weight, matching_stretch, matching_style) ==
    LET m == family.fonts
        cand == {k \in 1..Len(m) :
                    m[k].stretch = matching_stretch /\ m[k].style = matching_style}
    IN  IF weight >= 400 /\ weight <= 500
        THEN LET a == FirstOf(m, {k \in cand : m[k].weight >= weight /\ m[k].weight <= 500})
                 b == FirstOfRev(m, {k \in cand : m[k].weight < weight})
             IN  IF a # None THEN a
                 ELSE IF b # None THEN b
                 ELSE FirstOf(m, {k \in cand : m[k].weight > 500})
        ELSE IF weight < 400
        THEN LET a == FirstOfRev(m, {k \in cand : m[k].weight <= weight})
             IN  IF a # None THEN a
                 ELSE FirstOf(m, {k \in cand : m[k].weight > weight})
        ELSE LET a == FirstOf(m, {k \in cand : m[k].weight >= weight})
             IN  IF a # None THEN a
                 ELSE FirstOfRev(m, {k \in cand : m[k].weight < weight})

Attributes(stretch, weight, style) ==
    [stretch |-> stretch, weight |-> weight, style |-> style]

\* FontFamily::query with the two values it settles on the way.
QueryFamily(family, attributes) ==
    LET matching_stretch == MatchingStretch(family, attributes.stretch)
        matching_style == MatchingStyle(family, attributes.style, matching_stretch)
    IN  [made |-> TRUE,
         family_id |-> family.id,
         attributes |-> attributes,
         matching_stretch |-> matching_stretch,
         matching_style |-> matching_style,
         result |-> MatchWeight(family, attributes.weight, matching_stretch, matching_style)]

\* A query of the family `id` of the collection, as FontCache::select_families
\* makes it; one query is recorded per state of the collection.
query(id, attributes) ==
    /\ q = NoQuery
    /\ id < Len(families)
    /\ q' = QueryFamily(families[id + 1], attributes)
    /\ UNCHANGED <<cvars, rvars, lvars>>

\* ------------------------------------------------------------------------
\* The style interner: Resolved<T>, Cache<T>, ResolveContext
\* ------------------------------------------------------------------------
\* !0, the index of Resolved::default(): usize::MAX, written as -1 here.
NOT_ZERO == 0 - 1
Resolved(index) == [index |-> index]
ResolvedDefault == Resolved(NOT_ZERO)

\* The f32 that is not equal to itself.
NaN == 0 - 1
Setting(tag, value) == [tag |-> tag, value |-> value]

\* PartialEq of the elements: FamilyId and Setting<u16> compare by value, and
\* so does Setting<f32> (float) unless a value is NaN.
ElemEq(a, b, float) == a = b /\ (float => a.value # NaN)

EmptyCache == [items |-> <<>>, entries |-> <<>>]

\* Cache::insert: the index of the first entry whose slice has the length of
\* `items` and equals it, else a new entry for `items` appended to the arena.
\* The result is the cache after the call and the handle.
CacheInsert(cache, items, float) ==
    LET hits == {i \in 1..Len(cache.entries) :
                    LET start == cache.entries[i][1]
                        end == cache.entries[i][2]
                    IN  /\ end - start = Len(items)
                        /\ end <= Len(cache.items)
                        /\ \A k \in 1..Len(items) : ElemEq(cache.items[start + k], items[k], float)}
    IN  IF hits # {}
        THEN [cache |-> cache, handle |-> Resolved(MinOf(hits) - 1)]
        ELSE [cache |-> [items |-> cache.items \o items,
                         entries |-> Append(cache.entries,
                                            <<Len(cache.items),
                                              Len(cache.items) + Len(items)>>)],
              handle |-> Resolved(Len(cache.entries))]

\* Cache::get
CacheGet(cache, handle) ==
    IF handle.index >= 0 /\ handle.index < Len(cache.entries)
    THEN Some(SubSeq(cache.items, cache.entries[handle.index + 1][1] + 1,
                     cache.entries[handle.index + 1][2]))
    ELSE None

\* sort_by(|a, b| a.tag.cmp(&b.tag)): a stable sort by tag.
Unsorted(s) == s
RECURSIVE SortByTag(_)
SortByTag(s) ==
    IF Len(s) <= 1 THEN s
    ELSE LET front == SortByTag(SubSeq(s, 1, Len(s) - 1))
             x == s[Len(s)]
             n == Cardinality({k \in 1..Len(front) : front[k].tag <= x.tag})
         IN  SubSeq(front, 1, n) \o <<x>> \o SubSeq(front, n + 1, Len(front))

\* The family ids of the names of a stack that the collection knows, in the
\* order of the stack.
RECURSIVE KnownFamilies(_, _)
KnownFamilies(fmap, names) ==
    IF names = <<>> THEN <<>>
    ELSE LET rest == KnownFamilies(fmap, Tail(names))
         IN  IF Head(names) \in DOMAIN fmap
             THEN <<fmap[Head(names)]>> \o rest
             ELSE rest

Call(op, input, list, handle) ==
    [op |-> op, input |-> input, list |-> list, handle |-> handle]

\* ResolveContext::resolve_stack on the parsed list of family names.
resolve_stack(names) ==
    LET tmp_families == KnownFamilies(family_map, names)
        r == CacheInsert(rcx.families, tmp_families, FALSE)
    IN  /\ rcx' = [rcx EXCEPT !.families = r.cache]
        /\ hist' = Append(hist, Call("stack", names, tmp_families, r.handle))

\* ResolveContext::resolve_variations on a list of settings.
resolve_variations(settings) ==
    IF settings = <<>>
    THEN /\ rcx' = rcx
         /\ hist' = Append(hist, Call("variations", settings, <<>>, ResolvedDefault))
    ELSE LET tmp_variations == SortByTag(settings)
             r == CacheInsert(rcx.variations, tmp_variations, TRUE)
         IN  /\ rcx' = [rcx EXCEPT !.variations = r.cache]
             /\ hist' = Append(hist, Call("variations", settings, tmp_variations, r.handle))

\* ResolveContext::resolve_features on a list of settings.
resolve_features(settings) ==
    IF settings = <<>>
    THEN /\ rcx' = rcx
         /\ hist' = Append(hist, Call("features", settings, <<>>, ResolvedDefault))
    ELSE LET tmp_features == SortByTag(settings)
             r == CacheInsert(rcx.features, tmp_features, FALSE)
         IN  /\ rcx' = [rcx EXCEPT !.features = r.cache]
             /\ hist' = Append(hist, Call("features", settings, tmp_features, r.handle))

\* ResolveContext::clear
RcxClear == [families |-> EmptyCache, variations |-> EmptyCache, features |-> EmptyCache]

\* ------------------------------------------------------------------------
\* Text, as the analysis of swash::text sees it
\* ------------------------------------------------------------------------
\* A character: its UTF-8 length, its class (L a left-to-right letter, R a
\* right-to-left letter, WS a space, B a mandatory break) and the advance the
\* shaper gives its cluster.
Char(bytes, class, advance) == [bytes |-> bytes, class |-> class, advance |-> advance]

RECURSIVE ByteLen(_)
\* str::len: the length in bytes.
ByteLen(text) == IF text = <<>> THEN 0 ELSE Head(text).bytes + ByteLen(Tail(text))
\* The byte offset of the k-th character (k = Len + 1: the end of the text).
CharStart(text, k) == ByteLen(SubSeq(text, 1, k - 1))
\* str::is_char_boundary
IsCharBoundary(text, p) == \E k \in 1..(Len(text) + 1) : CharStart(text, k) = p
\* str::chars of the byte range [s, e) of the text.
CharsIn(text, s, e) == {k \in 1..Len(text) : s <= CharStart(text, k) /\ CharStart(text, k) < e}

\* ------------------------------------------------------------------------
\* ResolvedStyle, ResolvedProperty
\* ------------------------------------------------------------------------
Property(kind, value) == [kind |-> kind, value |-> value]

\* ResolvedStyle::default
DefaultResolvedStyle ==
    [font_stack |-> ResolvedDefault,
     font_size |-> 16,
     font_stretch |-> STRETCH_NORMAL,
     font_style |-> StyleNormal,
     font_weight |-> 400,
     font_variations |-> ResolvedDefault,
     font_features |-> ResolvedDefault,
     locale |-> None,
     line_height |-> 1,
     word_spacing |-> 0,
     letter_spacing |-> 0]

\* A slip of apply: the font size lands in the line height.
ApplySizeAsLineHeight(style, property) ==
    IF property.kind = "FontSize"
    THEN [style EXCEPT !.line_height = property.value]
    ELSE style
\* ResolvedStyle::apply
Apply(style, property) ==
    CASE property.kind = "FontStack" -> [style EXCEPT !.font_stack = property.value]
      [] property.kind = "FontSize" -> [style EXCEPT !.font_size = property.value]
      [] property.kind = "FontStretch" -> [style EXCEPT !.font_stretch = property.value]
      [] property.kind = "FontStyle" -> [style EXCEPT !.font_style = property.value]
      [] property.kind = "FontWeight" -> [style EXCEPT !.font_weight = property.value]
      [] property.kind = "FontVariations" -> [style EXCEPT !.font_variations = property.value]
      [] property.kind = "FontFeatures" -> [style EXCEPT !.font_features = property.value]
      [] property.kind = "Locale" -> [style EXCEPT !.locale = property.value]
      [] property.kind = "LineHeight" -> [style EXCEPT !.line_height = property.value]
      [] property.kind = "WordSpacing" -> [style EXCEPT !.word_spacing = property.value]
      [] property.kind = "LetterSpacing" -> [style EXCEPT !.letter_spacing = property.value]

\* ResolveContext::resolve: the context after the call and the resolved
\* property. Sizes and spacings are scaled, lists are interned.
Resolve(cx, fmap, property, scale) ==
    CASE property.kind = "FontStack" ->
           LET r == CacheInsert(cx.families, KnownFamilies(fmap, property.value), FALSE)
           IN  [rcx |-> [cx EXCEPT !.families = r.cache],
                property |-> Property("FontStack", r.handle)]
      [] property.kind = "FontVariations" ->
           IF property.value = <<>>
           THEN [rcx |-> cx, property |-> Property("FontVariations", ResolvedDefault)]
           ELSE LET r == CacheInsert(cx.variations, SortByTag(property.value), TRUE)
                IN  [rcx |-> [cx EXCEPT !.variations = r.cache],
                     property |-> Property("FontVariations", r.handle)]
      [] property.kind = "FontFeatures" ->
           IF property.value = <<>>
           THEN [rcx |-> cx, property |-> Property("FontFeatures", ResolvedDefault)]
           ELSE LET r == CacheInsert(cx.features, SortByTag(property.value), FALSE)
                IN  [rcx |-> [cx EXCEPT !.features = r.cache],
                     property |-> Property("FontFeatures", r.handle)]
      [] property.kind \in {"FontSize", "WordSpacing", "LetterSpacing"} ->
           [rcx |-> cx, property |-> Property(property.kind, property.value * scale)]
      [] OTHER -> [rcx |-> cx, property |-> property]

\* ------------------------------------------------------------------------
\* RangedStyleBuilder (resolve/range.rs): begin, push_default, push, finish
\* ------------------------------------------------------------------------
RangedStyle(start, end, style) == [range |-> <<start, end>>, style |-> style]

\* begin(len)
RsbBegin(len) == [len |-> len, default_style |-> DefaultResolvedStyle, properties |-> <<>>]
\* push_default(property)
RsbPushDefault(b, property) == [b EXCEPT !.default_style = Apply(@, property)]
\* push(property, range)
RsbPush(b, property, range) ==
    [b EXCEPT !.properties = Append(@, [property |-> property, range |-> range])]

RECURSIVE ApplyCovering(_, _, _, _)
\* The overlays from the k-th on whose range holds p, applied in order.
ApplyCovering(style, properties, k, p) ==
    IF k > Len(properties) THEN style
    ELSE LET o == properties[k]
             covered == o.range[1] <= p /\ p < o.range[2]
         IN  ApplyCovering(IF covered THEN Apply(style, o.property) ELSE style,
                           properties, k + 1, p)
\* The style in effect at byte p.
StyleAt(b, p) == ApplyCovering(b.default_style, b.properties, 1, p)

RECURSIVE FinishFrom(_, _, _)
\* The walk of finish from byte p on: a span is opened whenever the style in
\* effect differs from the style of the span before.
FinishFrom(b, p, spans) ==
    IF p >= b.len THEN spans
    ELSE LET style == StyleAt(b, p)
             n == Len(spans)
         IN  IF n > 0 /\ spans[n].style = style
             THEN FinishFrom(b, p + 1, [spans EXCEPT ![n].range[2] = p + 1])
             ELSE FinishFrom(b, p + 1, Append(spans, RangedStyle(p, p + 1, style)))
\* finish(out_spans)
RsbFinish(b) == FinishFrom(b, 0, <<>>)

\* ------------------------------------------------------------------------
\* BidiResolver (bidi.rs): levels under the base level the caller passes
\* ------------------------------------------------------------------------
\* swash's needs_bidi_resolution: some character is right-to-left.
NeedsBidiResolution(text) == \E k \in 1..Len(text) : text[k].class = "R"

Strong(text, k) == text[k].class \in {"L", "R"}
\* The direction a character resolves to in a left-to-right paragraph: its
\* own if it is a letter; a space between two letters of one direction takes
\* theirs and any other space the paragraph's (the ends count as the
\* paragraph's direction); a mandatory break has the paragraph's.
Direction(text, k) ==
    LET before == {j \in 1..(k - 1) : Strong(text, j)}
        after == {j \in (k + 1)..Len(text) : Strong(text, j)}
        prev == IF before = {} THEN "L" ELSE text[MaxOf(before)].class
        next == IF after = {} THEN "L" ELSE text[MinOf(after)].class
    IN  IF Strong(text, k) THEN text[k].class
        ELSE IF text[k].class = "WS" /\ prev = next THEN prev
        ELSE "L"
\* BidiResolver::resolve(chars, Some(0)): one level per character.
BidiLevels(text) == [k \in 1..Len(text) |-> IF Direction(text, k) = "R" THEN 1 ELSE 0]
\* BidiResolver::clear
BidiClear == [levels |-> <<>>, base_level |-> 0]
BidiResolve(text) == [levels |-> BidiLevels(text), base_level |-> 0]

\* ------------------------------------------------------------------------
\* FontCache: reset, select_families
\* ------------------------------------------------------------------------
\* Attributes::default
DefaultAttributes == Attributes(STRETCH_NORMAL, 400, StyleNormal)
\* CachedFont::new
CachedFont(id) == [id |-> id, loaded |-> FALSE, attrs |-> DefaultAttributes, error |-> FALSE]
\* FontCache::reset
CacheReset == [selected_params |-> None, selected_fonts |-> <<>>, attrs |-> DefaultAttributes]

RECURSIVE QueryFamilies(_, _, _)
\* families.iter().filter_map(family).filter_map(query).map(CachedFont::new)
QueryFamilies(fams, ids, attrs) ==
    IF ids = <<>> THEN <<>>
    ELSE LET id == Head(ids)
             rest == QueryFamilies(fams, Tail(ids), attrs)
             found == IF id >= 0 /\ id < Len(fams)
                      THEN QueryFamily(fams[id + 1], attrs).result
                      ELSE None
         IN  IF found = None THEN rest ELSE <<CachedFont(found[1])>> \o rest

\* FontCache::select_families
SelectFamilies(c, fams, id, ids, attrs) ==
    IF c.selected_params # Some(<<id, attrs>>)
    THEN [selected_params |-> Some(<<id, attrs>>),
          selected_fonts |-> QueryFamilies(fams, ids, attrs),
          attrs |-> attrs]
    ELSE c

\* ------------------------------------------------------------------------
\* FontCache::map_cluster
\* ------------------------------------------------------------------------
\* No map_cluster call was made yet.
NoMapping ==
    [made |-> FALSE, cluster_len |-> 0, coverage |-> <<>>, unreadable |-> {},
     entry |-> <<>>, statuses |-> <<>>, result |-> None]

\* CachedFont::get_font: the handle (with the key of the font) and the
\* attributes of the font, unless the collection has no such font, no such
\* data, or FontRef::from_index finds no font in the data.
GetFont(fs, ds, id, unreadable) ==
    IF id < 0 \/ id >= Len(fs) THEN None
    ELSE IF fs[id + 1].data_id >= Len(ds) THEN None
    ELSE IF id \in unreadable THEN None
    ELSE Some(<<id, fs[id + 1].attributes>>)

\* CharCluster::map with a charmap that maps n of the cluster's characters:
\* Complete when all are mapped, Keep when more are mapped than by any
\* charmap before, Discard otherwise.
Status(cluster, n) ==
    IF n >= cluster.len THEN "Complete"
    ELSE IF n > cluster.best THEN "Keep"
    ELSE "Discard"

\* Attributes::synthesize
Synthesize(attrs, requested) ==
    [embolden |-> requested.weight > attrs.weight,
     skew |-> requested.style.kind = "Oblique" /\ attrs.style.kind = "Normal"]

\* CachedFont::map_cluster once the font is loaded: the match on the status.
\* (MapLoadedKeepingFirst: a Keep does not replace an earlier best.)
MapLoadedKeepingFirst(font, cluster, coverage, best) ==
    LET status == Status(cluster, coverage[font.id + 1])
    IN  [font |-> font,
         cluster |-> [cluster EXCEPT !.best = MaxOf({cluster.best, coverage[font.id + 1]})],
         best |-> IF status = "Complete" \/ (status = "Keep" /\ best = None)
                  THEN Some(<<font.id, font.attrs>>)
                  ELSE best,
         status |-> status,
         done |-> status = "Complete"]
MapLoaded(font, cluster, coverage, best) ==
    LET status == Status(cluster, coverage[font.id + 1])
    IN  [font |-> font,
         cluster |-> [cluster EXCEPT !.best = MaxOf({cluster.best, coverage[font.id + 1]})],
         best |-> IF status \in {"Complete", "Keep"}
                  THEN Some(<<font.id, font.attrs>>)
                  ELSE best,
         status |-> status,
         done |-> status = "Complete"]

\* CachedFont::map_cluster
CachedFontMapCluster(font, fs, ds, unreadable, cluster, coverage, best) ==
    IF font.error
    THEN [font |-> font, cluster |-> cluster, best |-> best,
          status |-> "Errored", done |-> FALSE]
    ELSE IF font.loaded THEN MapLoaded(font, cluster, coverage, best)
    ELSE IF GetFont(fs, ds, font.id, unreadable) # None
    THEN MapLoaded([font EXCEPT !.loaded = TRUE,
                                !.attrs = GetFont(fs, ds, font.id, unreadable)[1][2]],
                   cluster, coverage, best)
    ELSE [font |-> [font EXCEPT !.error = TRUE], cluster |-> cluster, best |-> best,
          status |-> "Errored", done |-> FALSE]

RECURSIVE MapCluster(_, _, _, _, _, _, _, _, _)
\* map_cluster over the candidates from the i-th on: the walk ends at the
\* first candidate that returns true. `statuses` has what each candidate
\* visited so far made of the cluster.
MapCluster(cands, i, fs, ds, unreadable, cluster, coverage, best, statuses) ==
    IF i > Len(cands)
    THEN [fonts |-> cands, best |-> best, statuses |-> statuses, ret |-> FALSE]
    ELSE LET r == CachedFontMapCluster(cands[i], fs, ds, unreadable, cluster, coverage, best)
             cands1 == [cands EXCEPT ![i] = r.font]
             statuses1 == Append(statuses, r.status)
         IN  IF r.done
             THEN [fonts |-> cands1, best |-> r.best, statuses |-> statuses1, ret |-> TRUE]
             ELSE MapCluster(cands1, i + 1, fs, ds, unreadable, r.cluster, coverage,
                             r.best, statuses1)

\* FontCache::map_cluster for a cluster of cluster_len characters of which
\* the font with the id k maps coverage[k + 1]; FontRef::from_index finds
\* no font for the ids in `unreadable`.
map_cluster(cluster_len, coverage, unreadable) ==
    /\ \E w \in {MapCluster(font_cache.selected_fonts, 1, fonts, data, unreadable,
                            [len |-> cluster_len, best |-> 0], coverage, None, <<>>)} :
         /\ font_cache' = [font_cache EXCEPT !.selected_fonts = w.fonts]
         /\ mapped' = [made |-> TRUE, cluster_len |-> cluster_len, coverage |-> coverage,
                       unreadable |-> unreadable,
                       entry |-> font_cache.selected_fonts,
                       statuses |-> w.statuses,
                       result |-> IF w.best = None THEN None
                                  ELSE Some([font |-> w.best[1][1],
                                             synthesis |-> Synthesize(w.best[1][2],
                                                                      font_cache.attrs)])]
    /\ UNCHANGED <<cvars, rvars, q, rb, rsb, styles, info, bidi, layout, obs, cursor, got, breaker>>

\* FontCache::select_families
select_families(id, ids, attrs) ==
    /\ font_cache' = SelectFamilies(font_cache, families, id, ids, attrs)
    /\ UNCHANGED <<cvars, rvars, q, rb, rsb, styles, info, bidi, layout, obs, cursor, mapped, got, breaker>>

\* ------------------------------------------------------------------------
\* LayoutContext::ranged_builder, RangedBuilder::push_default, push
\* ------------------------------------------------------------------------
\* What the caller saw of the last call on the current builder: the
\* operation, what it returned, the fallback cache as the call found it,
\* whether the target layout held runs before, and how many push and
\* push_default calls had been made.
Observed(op, r, entry, filled, calls) ==
    [op |-> op, ret |-> r, entry |-> entry, filled |-> filled, calls |-> calls]
NoObservation == Observed("none", "none", CacheReset, FALSE, 0)

Space == Char(1, "WS", 1)
NoBuilder == [text |-> <<>>, scale |-> 1]

\* The (CharInfo, u16) pairs begin() makes: one per character of the text,
\* or of " " when the text is empty, each with style index 0.
BeginInfo(text) ==
    LET analysed == IF text = <<>> THEN <<Space>> ELSE text
    IN  [k \in 1..Len(analysed) |-> [ch |-> analysed[k], style |-> 0]]
\* The bidi state begin() leaves.
BeginBidi(text) ==
    LET analysed == IF text = <<>> THEN <<Space>> ELSE text
    IN  IF NeedsBidiResolution(analysed) THEN BidiResolve(analysed) ELSE BidiClear

\* LayoutContext::ranged_builder: begin(text), then the fallback cache is
\* reset and the builder borrows both contexts.
ranged_builder(text, scale) ==
    /\ rcx' = RcxClear
    /\ styles' = <<>>
    /\ rsb' = RsbBegin(ByteLen(text))
    /\ info' = BeginInfo(text)
    /\ bidi' = BeginBidi(text)
    /\ font_cache' = CacheReset
    /\ rb' = [text |-> text, scale |-> scale]
    /\ building' = TRUE
    /\ hist' = <<>>
    /\ obs' = NoObservation
    /\ UNCHANGED <<cvars, q, layout, cursor, mapped, got, breaker>>

\* The RangedBuilder is dropped: the contexts are free again.
drop_builder ==
    /\ building
    /\ building' = FALSE
    /\ UNCHANGED <<cvars, q, rcx, hist, lvars>>

\* RangedBuilder::push_default
push_default(property) ==
    LET r == Resolve(rcx, family_map, property, rb.scale)
    IN  /\ building
        /\ rcx' = r.rcx
        /\ rsb' = RsbPushDefault(rsb, r.property)
        /\ hist' = Append(hist, Call("push_default", property, <<>>, r.property))
        /\ UNCHANGED <<cvars, q, building, rb, styles, info, bidi, font_cache, layout, obs, cursor, mapped, got, breaker>>

\* RangedBuilder::push with the range start..end
push(property, range) ==
    LET r == Resolve(rcx, family_map, property, rb.scale)
    IN  /\ building
        /\ rcx' = r.rcx
        /\ rsb' = RsbPush(rsb, r.property, range)
        /\ hist' = Append(hist, Call("push", property, range, r.property))
        /\ UNCHANGED <<cvars, q, building, rb, styles, info, bidi, font_cache, layout, obs, cursor, mapped, got, breaker>>

\* ------------------------------------------------------------------------
\* LayoutData and the shaper driver (layout/data.rs, shape.rs)
\* ------------------------------------------------------------------------
\* LayoutData::default, and what LayoutData::clear leaves.
EmptyLayout ==
    [scale |-> 0, has_bidi |-> FALSE, base_level |-> FALSE, text_len |-> 0,
     full_width |-> 0, styles |-> <<>>, fonts |-> {}, runs |-> <<>>,
     clusters |-> <<>>, glyphs |-> <<>>, lines |-> <<>>, line_runs |-> <<>>]

\* The level of the k-th character: no levels were resolved for a text that
\* needs no bidi resolution.
LevelOf(levels, k) == IF k <= Len(levels) THEN levels[k] ELSE 0

\* The attributes a span asks of the matcher.
SpanAttributes(style) == Attributes(style.font_stretch, style.font_weight, style.font_style)
\* ResolveContext::stack(handle).unwrap_or(&[])
StackOf(cx, handle) ==
    LET s == CacheGet(cx.families, handle) IN IF s = None THEN <<>> ELSE s[1]

\* The last character of the shaping segment that starts at character k: the
\* bidi level and the style span do not change inside a segment.
SegmentEnd(text, inf, levels, k) ==
    MaxOf({e \in k..Len(text) :
              \A j \in k..e : /\ LevelOf(levels, j) = LevelOf(levels, k)
                              /\ inf[j].style = inf[k].style})

\* The cluster of the k-th character. Without a font it has no glyph and no
\* advance; letter spacing is added to every cluster and word spacing to a
\* space.
ShapeCluster(text, k, style, style_index, font) ==
    LET ch == text[k]
        spacing == style.letter_spacing + (IF ch.class = "WS" THEN style.word_spacing ELSE 0)
    IN  [text_range |-> <<CharStart(text, k), CharStart(text, k + 1)>>,
         advance |-> IF font = None THEN 0 ELSE ch.advance + spacing,
         class |-> ch.class,
         glyphs |-> IF font = None THEN <<>>
                    ELSE <<[style_index |-> style_index, advance |-> ch.advance + spacing]>>]

RECURSIVE SumAdvance(_)
SumAdvance(s) == IF s = <<>> THEN 0 ELSE Head(s).advance + SumAdvance(Tail(s))
RECURSIVE Flatten(_)
Flatten(ss) == IF ss = <<>> THEN <<>> ELSE Head(ss) \o Flatten(Tail(ss))

RECURSIVE ShapeFrom(_, _, _, _, _, _, _, _)
\* The segment of the characters k..e, shaped with the fallback cache c
\* primed for it: the first candidate shapes the segment (every face maps
\* every character), a run is appended, and shaping goes on after e.
ShapeSegment(text, sp, inf, levels, cx, fams, k, e, acc, c) ==
    LET style_index == inf[k].style
        style == sp[style_index + 1].style
        font == IF c.selected_fonts = <<>> THEN None
                ELSE Some(c.selected_fonts[1].id)
        cs == [j \in 1..(e - k + 1) |->
                  ShapeCluster(text, k + j - 1, style, style_index, font)]
        run == [font |-> font,
                style_index |-> style_index,
                bidi_level |-> LevelOf(levels, k),
                text_range |-> <<CharStart(text, k), CharStart(text, e + 1)>>,
                cluster_range |-> <<Len(acc.clusters), Len(acc.clusters) + Len(cs)>>,
                advance |-> SumAdvance(cs)]
    IN  ShapeFrom(text, sp, inf, levels, cx, fams, e + 1,
                  [cache |-> c,
                   runs |-> Append(acc.runs, run),
                   clusters |-> acc.clusters \o cs])
\* shape_text from character k on: segment by segment the fallback cache is
\* primed with the span's stack and attributes.
ShapeFrom(text, sp, inf, levels, cx, fams, k, acc) ==
    IF k > Len(text) THEN acc
    ELSE ShapeSegment(text, sp, inf, levels, cx, fams, k,
                      SegmentEnd(text, inf, levels, k), acc,
                      SelectFamilies(acc.cache, fams, inf[k].style,
                                     StackOf(cx, sp[inf[k].style + 1].style.font_stack),
                                     SpanAttributes(sp[inf[k].style + 1].style)))

\* LayoutData::finish: the buffers of the layout after shaping.
LayoutBuffers(out, sp) ==
    [cache |-> out.cache,
     runs |-> out.runs,
     clusters |-> out.clusters,
     glyphs |-> Flatten([j \in 1..Len(out.clusters) |-> out.clusters[j].glyphs]),
     fonts |-> {out.runs[j].font[1] : j \in {i \in 1..Len(out.runs) : out.runs[i].font # None}},
     styles |-> [j \in 1..Len(sp) |-> [line_height |-> sp[j].style.line_height]],
     full_width |-> SumAdvance(out.runs)]
\* shape_text and LayoutData::finish: the cache after shaping and the
\* buffers of the layout.
ShapeText(text, sp, inf, levels, cx, fams, c) ==
    LayoutBuffers(ShapeFrom(text, sp, inf, levels, cx, fams, 1,
                            [cache |-> c, runs |-> <<>>, clusters |-> <<>>]),
                  sp)

\* ------------------------------------------------------------------------
\* Cursor (layout/cursor.rs)
\* ------------------------------------------------------------------------
\* Cursor::default
DefaultCursor ==
    [path |-> [line_index |-> 0, run_index |-> 0, cluster_index |-> 0],
     baseline |-> 0, offset |-> 0, advance |-> 0, text_start |-> 0, text_end |-> 0,
     is_rtl |-> FALSE, is_leading |-> FALSE, is_inside |-> FALSE]
\* No cursor was made from the layout as it is now.
NoCursor == [op |-> "none", x |-> 0, y |-> 0, position |-> 0, result |-> DefaultCursor]

\* ------------------------------------------------------------------------
\* RangedBuilder::build_into, RangedBuilder::build
\* ------------------------------------------------------------------------
RECURSIVE AssignStyles(_, _, _, _, _)
\* The loop of build_into over the spans from the i-th on: the characters of
\* text[style.range] get the span's index, one info entry after the other.
\* Slicing the text off a character boundary panics, and so does an index
\* past the end of info.
AssignStyles(text, sp, i, inf, char_index) ==
    IF i > Len(sp) THEN [info |-> inf, panicked |-> FALSE]
    ELSE LET s == sp[i].range[1]
             e == sp[i].range[2]
             sliceable == /\ s <= e /\ e <= ByteLen(text)
                          /\ IsCharBoundary(text, s) /\ IsCharBoundary(text, e)
             n == Cardinality(CharsIn(text, s, e))
             fits == MinOf({n, Len(inf) - char_index})
             assigned == [k \in 1..Len(inf) |->
                            IF char_index < k /\ k <= char_index + fits
                            THEN [inf[k] EXCEPT !.style = i - 1]
                            ELSE inf[k]]
         IN  IF ~sliceable THEN [info |-> inf, panicked |-> TRUE]
             ELSE IF fits < n THEN [info |-> assigned, panicked |-> TRUE]
             ELSE AssignStyles(text, sp, i + 1, assigned, char_index + n)

\* !self.lcx.bidi.base_level(): the level taken as "is right-to-left" and
\* negated (the bitwise complement of a u8 level 0 is nonzero as well).
NotBaseLevel(level) == ~(level # 0)

\* build_into once the text is shaped: the runs, clusters and glyphs land
\* in the layout and the call returns true.
BuildWithRuns(head, sp, a, s) ==
    [layout |-> [head EXCEPT !.runs = s.runs, !.clusters = s.clusters,
                             !.glyphs = s.glyphs, !.fonts = s.fonts,
                             !.styles = s.styles, !.full_width = s.full_width],
     styles |-> sp, info |-> a.info, cache |-> s.cache, ret |-> "true"]
\* build_into once the style indices are assigned: shape_text, unless the
\* loop panicked.
BuildWithInfo(head, sp, a) ==
    IF a.panicked
    THEN [layout |-> head, styles |-> sp, info |-> a.info, cache |-> font_cache,
          ret |-> "panic"]
    ELSE BuildWithRuns(head, sp, a,
                       ShapeText(rb.text, sp, a.info, bidi.levels, rcx, families, font_cache))
\* build_into once finish has made the spans: the style index loop.
BuildWithSpans(head, sp) == BuildWithInfo(head, sp, AssignStyles(rb.text, sp, 1, info, 0))

\* A slip of build_into: the target is cleared only after the test for an
\* empty text.
BuildIntoKeepingTarget(target) ==
    IF rb.text = <<>>
    THEN [layout |-> target, styles |-> styles, info |-> info, cache |-> font_cache,
          ret |-> "false"]
    ELSE BuildWithSpans([EmptyLayout EXCEPT !.scale = rb.scale,
                                            !.has_bidi = bidi.levels # <<>>,
                                            !.base_level = NotBaseLevel(bidi.base_level),
                                            !.text_len = ByteLen(rb.text)],
                        RsbFinish(rsb))
\* build_into on the target `target`: the layout, the spans, the info, the
\* fallback cache after the call, and what it returns.
BuildInto(target) ==
    LET cleared == [EmptyLayout EXCEPT !.scale = rb.scale]
        head == [cleared EXCEPT !.has_bidi = bidi.levels # <<>>,
                                !.base_level = NotBaseLevel(bidi.base_level),
                                !.text_len = ByteLen(rb.text)]
    IN  IF rb.text = <<>>
        THEN [layout |-> cleared, styles |-> styles, info |-> info, cache |-> font_cache,
              ret |-> "false"]
        ELSE BuildWithSpans(head, RsbFinish(rsb))

\* RangedBuilder::build_into(&mut layout); a panic unwinds through the
\* builder, which is dropped.
build_into ==
    \E b \in {BuildInto(layout)} :
        /\ building
        /\ layout' = b.layout
        /\ styles' = b.styles
        /\ info' = b.info
        /\ font_cache' = b.cache
        /\ obs' = Observed("build_into", b.ret, font_cache, layout.runs # <<>>, Len(hist))
        /\ building' = (b.ret # "panic")
        /\ cursor' = NoCursor
        /\ UNCHANGED <<cvars, q, rcx, hist, rb, rsb, bidi, mapped, got, breaker>>

\* RangedBuilder::build: build_into on a new layout, which the caller gets
\* when build_into returns true.
build ==
    \E b \in {BuildInto(EmptyLayout)} :
        /\ building
        /\ layout' = IF b.ret = "true" THEN b.layout ELSE layout
        /\ styles' = b.styles
        /\ info' = b.info
        /\ font_cache' = b.cache
        /\ obs' = Observed("build", IF b.ret = "true" THEN "Some"
                                    ELSE IF b.ret = "false" THEN "None" ELSE "panic",
                           font_cache, FALSE, Len(hist))
        /\ building' = (b.ret # "panic")
        /\ cursor' = NoCursor
        /\ UNCHANGED <<cvars, q, rcx, hist, rb, rsb, bidi, mapped, got, breaker>>

\* ------------------------------------------------------------------------
\* BreakLines (layout/line/greedy.rs): greedy breaking, reordering, alignment
\* ------------------------------------------------------------------------
F32_MAX == 1000          \* f32::MAX, the budget when max_advance is None
\* RunMetrics of every run, scaled: ascent, descent, leading.
Ascent == 2
Descent == 1
Leading == 2

RECURSIVE LineEnd(_, _, _, _, _, _)
\* Where the line that is being filled ends (the number of clusters before
\* its end), scanning from the i-th cluster on: after a mandatory break; at
\* the last break opportunity once the width without trailing whitespace
\* exceeds the budget; else at the end of the text. A space is a break
\* opportunity after it.
LineEnd(cs, i, max_advance, width, trailing_ws, last_break) ==
    IF i > Len(cs) THEN Len(cs)
    ELSE IF cs[i].class = "B" THEN i
    ELSE LET w == width + cs[i].advance
             t == IF cs[i].class = "WS" THEN trailing_ws + cs[i].advance ELSE 0
         IN  IF w - t > max_advance /\ last_break # None
             THEN last_break[1]
             ELSE LineEnd(cs, i + 1, max_advance, w, t,
                          IF cs[i].class = "WS" THEN Some(i) ELSE last_break)

RECURSIVE BreakFromOverlapping(_, _, _, _)
\* A slip of the breaker: the last cluster of a closed line also seeds the
\* next line.
BreakFromOverlapping(cs, start, max_advance, acc) ==
    IF start >= Len(cs) THEN acc
    ELSE LET end == LineEnd(cs, start + 1, max_advance, 0, 0, None)
         IN  BreakFromOverlapping(cs, IF end - 1 > start THEN end - 1 ELSE end,
                                  max_advance, Append(acc, <<start, end>>))
RECURSIVE BreakFrom(_, _, _, _)
\* The cluster ranges start..end of the lines from cluster `start` on.
BreakFrom(cs, start, max_advance, acc) ==
    IF start >= Len(cs) THEN acc
    ELSE LET end == LineEnd(cs, start + 1, max_advance, 0, 0, None)
         IN  BreakFrom(cs, end, max_advance, Append(acc, <<start, end>>))

\* The advance of the clusters start..end.
AdvanceOf(cs, start, end) == SumAdvance(SubSeq(cs, start + 1, end))

\* LineRunData: the part start..end of the clusters of the run on a line.
LineRun(lay, run_index, start, end) ==
    [run_index |-> run_index,
     bidi_level |-> lay.runs[run_index + 1].bidi_level,
     cluster_range |-> <<start, end>>,
     text_range |-> <<lay.clusters[start + 1].text_range[1], lay.clusters[end].text_range[2]>>,
     advance |-> AdvanceOf(lay.clusters, start, end)]

\* The runs with clusters in start..end, in logical order, each trimmed to
\* the line.
LogicalLineRuns(lay, start, end) ==
    LET on == {k \in 1..Len(lay.runs) :
                  /\ lay.runs[k].cluster_range[1] < end
                  /\ lay.runs[k].cluster_range[2] > start}
        nth(j) == CHOOSE k \in on : Cardinality({m \in on : m < k}) = j - 1
    IN  [j \in 1..Cardinality(on) |->
            LineRun(lay, nth(j) - 1,
                    MaxOf({start, lay.runs[nth(j)].cluster_range[1]}),
                    MinOf({end, lay.runs[nth(j)].cluster_range[2]}))]

\* One step of rule L2: every maximal sequence of runs at level >= k is
\* reversed.
ReverseLevel(lrs, k) ==
    LET at(i) == lrs[i].bidi_level >= k
        first(i) == MinOf({a \in 1..i : \A j \in a..i : at(j)})
        last(i) == MaxOf({b \in i..Len(lrs) : \A j \in i..b : at(j)})
    IN  [i \in 1..Len(lrs) |-> IF at(i) THEN lrs[first(i) + last(i) - i] ELSE lrs[i]]

RECURSIVE ReorderFrom(_, _, _)
ReorderFrom(lrs, k, lowest) ==
    IF k < lowest THEN lrs ELSE ReorderFrom(ReverseLevel(lrs, k), k - 1, lowest)
\* Rule L2 on the runs of a line: from the highest level down to the lowest
\* odd level (the paragraph is left-to-right: base level + 1).
Reorder(lrs) ==
    LET levels == {lrs[i].bidi_level : i \in 1..Len(lrs)}
    IN  IF levels = {} THEN lrs ELSE ReorderFrom(lrs, MaxOf(levels), 1)

\* The trailing whitespace clusters of the line start..end.
TrailingWs(cs, start, end) ==
    {i \in (start + 1)..end : \A j \in i..end : cs[j].class = "WS"}
\* The whitespace clusters of the line that are gaps between words.
Gaps(cs, start, end) ==
    {i \in (start + 1)..end : cs[i].class = "WS"} \ TrailingWs(cs, start, end)
\* Whether free space is distributed over the gaps of the line: the
\* alignment is Justified, the line is not the last and does not end in a
\* mandatory break.
IsJustified(cs, start, end, alignment) ==
    /\ alignment = "Justified"
    /\ end < Len(cs)
    /\ cs[end].class # "B"
    /\ Gaps(cs, start, end) # {}

FreeSpace(cs, start, end, max_advance) ==
    MaxOf({0, max_advance - AdvanceOf(cs, start, end)})

\* The clusters after justification.
Justify(cs, ranges, max_advance, alignment) ==
    [i \in 1..Len(cs) |->
        LET r == CHOOSE r \in {ranges[n] : n \in 1..Len(ranges)} : r[1] < i /\ i <= r[2]
        IN  IF IsJustified(cs, r[1], r[2], alignment) /\ i \in Gaps(cs, r[1], r[2])
            THEN [cs[i] EXCEPT !.advance =
                     @ + FreeSpace(cs, r[1], r[2], max_advance)
                           \div Cardinality(Gaps(cs, r[1], r[2]))]
            ELSE cs[i]]

\* LineMetrics of the n-th line.
Metrics(cs, ranges, n, max_advance, alignment) ==
    LET start == ranges[n][1]
        end == ranges[n][2]
        free == FreeSpace(cs, start, end, max_advance)
    IN  [offset |-> CASE alignment = "End" -> free
                      [] alignment = "Middle" -> free \div 2
                      [] OTHER -> 0,
         baseline |-> (n - 1) * (Ascent + Descent + Leading) + Ascent,
         leading |-> Leading,
         ascent |-> Ascent,
         descent |-> Descent,
         advance |-> AdvanceOf(cs, start, end),
         trailing_whitespace |->
             SumAdvance([j \in 1..Cardinality(TrailingWs(cs, start, end)) |-> cs[end - j + 1]])]

\* BreakLines::break_remaining(max_advance, alignment) on the layout: the
\* layout with its lines, their runs in visual order, and the clusters.
BreakRemaining(lay, max_advance, alignment) ==
    LET ranges == BreakFrom(lay.clusters, 0, max_advance, <<>>)
        justified == Justify(lay.clusters, ranges, max_advance, alignment)
        after == [lay EXCEPT !.clusters = justified]
        visual(n) == LET lrs == LogicalLineRuns(after, ranges[n][1], ranges[n][2])
                     IN  IF lay.has_bidi THEN Reorder(lrs) ELSE lrs
        before(n) == Len(Flatten([m \in 1..(n - 1) |-> visual(m)]))
    IN  [after EXCEPT
            !.lines = [n \in 1..Len(ranges) |->
                          [run_range |-> <<before(n), before(n) + Len(visual(n))>>,
                           text_range |-> <<justified[ranges[n][1] + 1].text_range[1],
                                            justified[ranges[n][2]].text_range[2]>>,
                           metrics |-> Metrics(justified, ranges, n, max_advance, alignment)]],
            !.line_runs = Flatten([n \in 1..Len(ranges) |-> visual(n)])]

\* Layout::break_all_lines
break_all_lines(max_advance, alignment) ==
    /\ layout' = BreakRemaining(layout,
                                IF max_advance = None THEN F32_MAX ELSE max_advance[1],
                                alignment)
    /\ cursor' = NoCursor
    /\ UNCHANGED <<cvars, rvars, q, rb, rsb, styles, info, bidi, font_cache, obs, mapped, got, breaker>>

\* ------------------------------------------------------------------------
\* BreakLines, cluster by cluster
\* ------------------------------------------------------------------------
\* No BreakLines was made for the layout.
NoBreaker ==
    [active |-> FALSE, made |-> FALSE, max_advance |-> 0, lines |-> <<>>, start |-> 0,
     i |-> 1, width |-> 0, trailing_ws |-> 0, last_break |-> None]
\* BreakLines::new and the budget of break_remaining: no line is closed, the
\* first line starts at cluster 0 with an empty accumulator.
NewBreaker(max_advance) ==
    [active |-> TRUE, made |-> TRUE, max_advance |-> max_advance, lines |-> <<>>,
     start |-> 0, i |-> 1, width |-> 0, trailing_ws |-> 0, last_break |-> None]
\* The line being filled is closed after `end` clusters of the layout; the
\* next line starts there with an empty accumulator.
CloseLine(b, end) ==
    [b EXCEPT !.lines = Append(b.lines, <<b.start, end>>),
              !.start = end, !.i = end + 1,
              !.width = 0, !.trailing_ws = 0, !.last_break = None]
\* A slip of the breaker: over budget without a break opportunity, the line
\* is closed before the cluster that does not fit, if it holds a cluster.
BreakClusterAtBudget(b, cs) ==
    IF b.start >= Len(cs) THEN [b EXCEPT !.active = FALSE]
    ELSE IF b.i > Len(cs) THEN CloseLine(b, Len(cs))
    ELSE IF cs[b.i].class = "B" THEN CloseLine(b, b.i)
    ELSE LET w == b.width + cs[b.i].advance
             t == IF cs[b.i].class = "WS" THEN b.trailing_ws + cs[b.i].advance ELSE 0
         IN  IF w - t > b.max_advance /\ b.last_break # None
             THEN CloseLine(b, b.last_break[1])
             ELSE IF w - t > b.max_advance /\ b.i - 1 > b.start
             THEN CloseLine(b, b.i - 1)
             ELSE [b EXCEPT !.i = b.i + 1, !.width = w, !.trailing_ws = t,
                            !.last_break = IF cs[b.i].class = "WS" THEN Some(b.i)
                                           ELSE b.last_break]
\* One iteration of the breaker, on the cluster b.i: the breaker is done
\* when no cluster is left; the rest of the text is the last line; a
\* mandatory break closes the line after it; over budget the line is closed
\* at the last break opportunity if there is one; else the cluster joins the
\* line.
BreakCluster(b, cs) ==
    IF b.start >= Len(cs) THEN [b EXCEPT !.active = FALSE]
    ELSE IF b.i > Len(cs) THEN CloseLine(b, Len(cs))
    ELSE IF cs[b.i].class = "B" THEN CloseLine(b, b.i)
    ELSE LET w == b.width + cs[b.i].advance
             t == IF cs[b.i].class = "WS" THEN b.trailing_ws + cs[b.i].advance ELSE 0
         IN  IF w - t > b.max_advance /\ b.last_break # None
             THEN CloseLine(b, b.last_break[1])
             ELSE [b EXCEPT !.i = b.i + 1, !.width = w, !.trailing_ws = t,
                            !.last_break = IF cs[b.i].class = "WS" THEN Some(b.i)
                                           ELSE b.last_break]

\* Layout::break_lines and the start of break_remaining
break_lines(max_advance) ==
    /\ ~breaker.active
    /\ breaker' = NewBreaker(IF max_advance = None THEN F32_MAX ELSE max_advance[1])
    /\ UNCHANGED <<cvars, rvars, q, rb, rsb, styles, info, bidi, font_cache, layout, obs,
                   cursor, mapped, got>>
\* One iteration of break_remaining
break_cluster ==
    /\ breaker.active
    /\ breaker' = BreakCluster(breaker, layout.clusters)
    /\ UNCHANGED <<cvars, rvars, q, rb, rsb, styles, info, bidi, font_cache, layout, obs,
                   cursor, mapped, got>>

\* ------------------------------------------------------------------------
\* Line and Run views (layout/line.rs, layout/mod.rs, layout/run.rs)
\* ------------------------------------------------------------------------
\* Run { layout, data, line_data }
Run(run_data, line_data) == [data |-> run_data, line_data |-> line_data]

\* Layout::runs: the runs in logical order, none tied to a line.
LayoutRuns(lay) == [k \in 1..Len(lay.runs) |-> Run(lay.runs[k], None)]
\* Line::runs: the runs of the line in visual order, each with its line data.
LineRuns(lay, line) ==
    [j \in 1..(line.run_range[2] - line.run_range[1]) |->
        LET lr == lay.line_runs[line.run_range[1] + j]
        IN  Run(lay.runs[lr.run_index + 1], Some(lr))]

\* Range::contains
Contains(range, x) == range[1] <= x /\ x < range[2]

\* Run::text_range
RunTextRange(run) == run.data.text_range
\* A slip of is_rtl: the parity test inverted.
IsEvenLevel(run) == run.data.bidi_level % 2 = 0
\* Run::is_rtl
is_rtl(run) == run.data.bidi_level % 2 # 0
\* Run::clusters: the indices into layout.clusters in logical order.
clusters(run) ==
    [j \in 1..(run.data.cluster_range[2] - run.data.cluster_range[1]) |->
        run.data.cluster_range[1] + j - 1]
\* Run::visual_clusters: the same range, from its end if the run is
\* right-to-left.
visual_clusters(run) ==
    [j \in 1..(run.data.cluster_range[2] - run.data.cluster_range[1]) |->
        IF is_rtl(run) THEN run.data.cluster_range[2] - j
        ELSE run.data.cluster_range[1] + j - 1]

\* The clusters the loops over line.runs() and run.visual_clusters() visit,
\* in order, with the two enumerate() indices.
Visits(runs) ==
    Flatten([r \in 1..Len(runs) |->
                [j \in 1..Len(visual_clusters(runs[r])) |->
                    [run_index |-> r - 1, run |-> runs[r], cluster_index |-> j - 1,
                     cluster |-> visual_clusters(runs[r])[j]]]])

\* usize::saturating_sub(1)
SaturatingPred(n) == IF n = 0 THEN 0 ELSE n - 1

\* The path and text range the loops record for a visit.
Target(lay, result, v) ==
    [result EXCEPT
        !.path.run_index = v.run_index,
        !.text_start = lay.clusters[v.cluster + 1].text_range[1],
        !.text_end = lay.clusters[v.cluster + 1].text_range[2],
        !.path.cluster_index = IF is_rtl(v.run)
                               THEN v.run.data.cluster_range[2] - v.cluster_index - 1
                               ELSE v.cluster_index]

RECURSIVE PointWalk(_, _, _, _, _, _, _)
\* The cluster loops of from_point from the k-th visit on.
PointWalk(lay, visits, k, x, result, last_edge, line_offset) ==
    IF k > Len(visits) THEN result
    ELSE LET r == Target(lay, result, visits[k])
             advance == lay.clusters[visits[k].cluster + 1].advance
             far_edge == last_edge + advance
             leading == 2 * x <= last_edge + far_edge
         IN  IF x >= last_edge
             THEN IF x < far_edge
                  THEN [r EXCEPT !.advance = advance,
                                 !.is_leading = leading,
                                 !.offset = IF leading THEN last_edge ELSE far_edge]
                  ELSE PointWalk(lay, visits, k + 1, x, r, far_edge, line_offset)
             ELSE [r EXCEPT !.is_inside = FALSE, !.is_leading = TRUE,
                            !.offset = line_offset]

\* Cursor::from_point
from_point(lay, x, y) ==
    LET result == [DefaultCursor EXCEPT !.is_inside = x >= 0 /\ y >= 0]
        last_line == SaturatingPred(Len(lay.lines))
        picked == {i \in 0..(Len(lay.lines) - 1) :
                      y <= lay.lines[i + 1].metrics.baseline \/ i = last_line}
    IN  IF picked = {} THEN result
        ELSE LET line_index == MinOf(picked)
                 line == lay.lines[line_index + 1]
                 below == 2 * y > 2 * line.metrics.baseline + line.metrics.leading
                 clamped == IF below THEN F32_MAX ELSE IF y < 0 THEN 0 ELSE x
                 onLine == [result EXCEPT !.is_inside = @ /\ ~below,
                                          !.baseline = line.metrics.baseline,
                                          !.path.line_index = line_index]
             IN  PointWalk(lay, Visits(LineRuns(lay, line)), 1, clamped,
                           onLine, line.metrics.offset, line.metrics.offset)

RECURSIVE PositionWalk(_, _, _, _, _, _)
\* The cluster loops of from_position from the k-th visit on; the visits are
\* those of the runs whose text range holds the position.
PositionWalk(lay, visits, k, position, result, last_edge) ==
    IF k > Len(visits)
    THEN [result EXCEPT !.offset = last_edge, !.is_leading = FALSE, !.is_inside = FALSE]
    ELSE LET r == [Target(lay, result, visits[k]) EXCEPT !.offset = last_edge]
             c == lay.clusters[visits[k].cluster + 1]
         IN  IF Contains(c.text_range, position)
             THEN [r EXCEPT !.offset = IF r.is_inside THEN @ ELSE @ + c.advance,
                            !.advance = c.advance]
             ELSE PositionWalk(lay, visits, k + 1, position, r, last_edge + c.advance)

\* Cursor::from_position
from_position(lay, pos) ==
    LET outside == pos >= lay.text_len
        position == IF outside THEN SaturatingPred(lay.text_len) ELSE pos
        result == [DefaultCursor EXCEPT !.is_leading = ~outside, !.is_inside = ~outside]
        last_line == SaturatingPred(Len(lay.lines))
        picked == {i \in 0..(Len(lay.lines) - 1) :
                      Contains(lay.lines[i + 1].text_range, position) \/ i = last_line}
    IN  IF picked = {}
        THEN [result EXCEPT !.is_leading = FALSE, !.is_inside = FALSE]
        ELSE LET line_index == MinOf(picked)
                 line == lay.lines[line_index + 1]
                 runs == LineRuns(lay, line)
                 visits == SelectSeq(Visits(runs),
                                     LAMBDA v : Contains(RunTextRange(v.run), position))
                 onLine == [result EXCEPT !.baseline = line.metrics.baseline,
                                          !.path.line_index = line_index,
                                          !.offset = line.metrics.offset]
                 walked == PositionWalk(lay, visits, 1, position, onLine,
                                        line.metrics.offset)
                 hit == \E k \in 1..Len(visits) :
                            Contains(lay.clusters[visits[k].cluster + 1].text_range, position)
             IN  IF hit \/ runs = <<>> THEN walked
                 ELSE [walked EXCEPT !.path.run_index = Len(runs) - 1]

\* A slip of text_range: the range end..start.
CursorTextRangeSwapped(c) == <<c.text_end, c.text_start>>
\* Cursor::text_range
CursorTextRange(c) == <<c.text_start, c.text_end>>

\* Cursor::is_rtl
CursorIsRtl(c) == c.is_rtl
\* Run::len
RunLen(run) == run.data.cluster_range[2] - run.data.cluster_range[1]
\* Run::get: the cluster at cluster_range.start + index of layout.clusters,
\* None when layout.clusters has no such element.
RunGet(lay, run, index) ==
    IF run.data.cluster_range[1] + index < Len(lay.clusters)
    THEN Some([run |-> run, data |-> run.data.cluster_range[1] + index])
    ELSE None
\* Layout::get
LayoutGet(lay, index) ==
    IF index < Len(lay.lines) THEN Some(lay.lines[index + 1]) ELSE None
\* Line::get: the run at the index among the runs of the line.
LineGet(lay, line, index) ==
    IF index < Len(LineRuns(lay, line)) THEN Some(LineRuns(lay, line)[index + 1]) ELSE None
\* CursorPath::line
CursorPathLine(lay, path) == LayoutGet(lay, path.line_index)
\* CursorPath::run
CursorPathRun(lay, path) ==
    IF CursorPathLine(lay, path) = None THEN None
    ELSE LineGet(lay, CursorPathLine(lay, path)[1], path.run_index)
\* CursorPath::cluster
CursorPathCluster(lay, path) ==
    IF CursorPathRun(lay, path) = None THEN None
    ELSE RunGet(lay, CursorPathRun(lay, path)[1], path.cluster_index)

\* Cursor::from_point(&layout, x, y), and what the caller gets
cursor_from_point(x, y) ==
    /\ cursor' = [op |-> "from_point", x |-> x, y |-> y, position |-> 0,
                  result |-> from_point(layout, x, y)]
    /\ UNCHANGED <<cvars, rvars, q, rb, rsb, styles, info, bidi, font_cache, layout, obs, mapped, got, breaker>>

\* Cursor::from_position(&layout, position), and what the caller gets
cursor_from_position(position) ==
    /\ cursor' = [op |-> "from_position", x |-> 0, y |-> 0, position |-> position,
                  result |-> from_position(layout, position)]
    /\ UNCHANGED <<cvars, rvars, q, rb, rsb, styles, info, bidi, font_cache, layout, obs, mapped, got, breaker>>

\* No Run::get call was made yet.
NoGet == [made |-> FALSE, run |-> Run(<<>>, None), index |-> 0, result |-> None]
\* run.get(index) on the run_index-th run of Layout::runs
run_get(run_index, index) ==
    /\ run_index < Len(LayoutRuns(layout))
    /\ got' = [made |-> TRUE,
               run |-> LayoutRuns(layout)[run_index + 1],
               index |-> index,
               result |-> RunGet(layout, LayoutRuns(layout)[run_index + 1], index)]
    /\ UNCHANGED <<cvars, rvars, q, rb, rsb, styles, info, bidi, font_cache, layout, obs,
                   cursor, mapped, breaker>>

\* ------------------------------------------------------------------------
\* The registry specification: any sequence of add_fonts calls.
\* ------------------------------------------------------------------------
Names == {"A", "B"}
CTriples == { <<STRETCH_NORMAL, 400, StyleNormal>>,
              <<STRETCH_NORMAL, 400, StyleItalic>>,
              <<STRETCH_SEMI_EXPANDED, 300, StyleNormal>> }
CSlots == {Unreadable} \cup {Face(t[1], t[2], t[3]) : t \in CTriples}
\* The blobs offered: one that does not parse, one without faces, and every
\* blob of one or two face slots.
CBlobs == {Malformed, Blob(<<>>)}
            \cup {Blob(<<s>>) : s \in CSlots}
            \cup {Blob(<<s, t>>) : s, t \in CSlots}

Init ==
    /\ families = <<>>
    /\ family_map = <<>>
    /\ fonts = <<>>
    /\ data = <<>>
    /\ call = NoCall
    /\ ret = None
    /\ q = NoQuery
    /\ rcx = RcxClear
    /\ building = FALSE
    /\ hist = <<>>
    /\ rb = NoBuilder
    /\ rsb = RsbBegin(0)
    /\ styles = <<>>
    /\ info = <<>>
    /\ bidi = BidiClear
    /\ font_cache = CacheReset
    /\ layout = EmptyLayout
    /\ obs = NoObservation
    /\ cursor = NoCursor
    /\ mapped = NoMapping
    /\ got = NoGet
    /\ breaker = NoBreaker

RegisterFonts == \E name \in Names, blob \in CBlobs : add_fonts(name, blob)

NextCollection == RegisterFonts
SpecCollection == Init /\ [][NextCollection]_vars

\* ------------------------------------------------------------------------
\* The matcher specification: one family built face by face, and queries.
\* ------------------------------------------------------------------------
\* The faces offered: every weight of QWeights in each of three (stretch,
\* style) kinds.
QWeights == {300, 400, 500, 700}
QKinds == { <<STRETCH_NORMAL, StyleNormal>>,
            <<STRETCH_SEMI_CONDENSED, StyleOblique(20)>>,
            <<STRETCH_SEMI_EXPANDED, StyleItalic>> }
QFaces == {Face(k[1], w, k[2]) : k \in QKinds, w \in QWeights}

RStretches == {STRETCH_ULTRA_CONDENSED, STRETCH_SEMI_CONDENSED, STRETCH_NORMAL,
               STRETCH_SEMI_EXPANDED, STRETCH_ULTRA_EXPANDED}
RWeights == {300, 350, 400, 450, 600, 800}
RStyles == {StyleNormal, StyleItalic, StyleOblique(14), StyleOblique(20)}
Requests == {Attributes(s, w, st) : s \in RStretches, w \in RWeights, st \in RStyles}

RegisterFace == \E face \in QFaces : add_fonts("A", Blob(<<face>>))
Query == \E id \in 0..(Len(families) - 1), attributes \in Requests : query(id, attributes)

NextQuery == RegisterFace \/ Query
SpecQuery == Init /\ [][NextQuery]_vars

\* ------------------------------------------------------------------------
\* The interner specifications: builds that resolve settings and stacks.
\* ------------------------------------------------------------------------
MaxCalls == 3        \* resolve calls recorded per build

\* Variation settings: tag 1 twice with different values, tag 2, and a NaN.
VarSettings == {Setting(1, 1), Setting(1, 2), Setting(2, 1), Setting(2, NaN)}
VarLists == {<<>>} \cup {<<a>> : a \in VarSettings}
              \cup {<<a, b>> : a, b \in VarSettings}
FeatureSettings == {Setting(1, 1), Setting(2, 0), Setting(2, 1)}
FeatureLists == {<<>>} \cup {<<a>> : a \in FeatureSettings}
                  \cup {<<a, b>> : a, b \in FeatureSettings}
StackLists == {<<>>} \cup {<<a>> : a \in Names} \cup {<<a, b>> : a, b \in Names}

RangedBuilder == ranged_builder(<<Char(1, "L", 1)>>, 1)
DropBuilder == drop_builder
ResolveVariations ==
    /\ building /\ Len(hist) < MaxCalls
    /\ \E settings \in VarLists : resolve_variations(settings)
    /\ UNCHANGED <<cvars, q, building, lvars>>
ResolveFeatures ==
    /\ building /\ Len(hist) < MaxCalls
    /\ \E settings \in FeatureLists : resolve_features(settings)
    /\ UNCHANGED <<cvars, q, building, lvars>>
ResolveStack ==
    /\ building /\ Len(hist) < MaxCalls
    /\ \E names \in StackLists : resolve_stack(names)
    /\ UNCHANGED <<cvars, q, building, lvars>>
\* A regular face is registered as family "A" while no builder is alive.
RegisterFamily ==
    /\ ~building
    /\ add_fonts("A", Blob(<<Face(STRETCH_NORMAL, 400, StyleNormal)>>))

NextVariations == RangedBuilder \/ ResolveVariations
SpecVariations == Init /\ [][NextVariations]_vars

NextResolve ==
    \/ RegisterFamily \/ RangedBuilder \/ DropBuilder
    \/ ResolveStack \/ ResolveVariations \/ ResolveFeatures
SpecResolve == Init /\ [][NextResolve]_vars

\* ------------------------------------------------------------------------
\* The styling specification: one builder, pushes, builds.
\* ------------------------------------------------------------------------
MaxPushes == 2       \* push and push_default calls per builder

Latin == Char(1, "L", 1)
Hebrew == Char(2, "R", 1)
\* Three bytes of text each: three letters, and a letter followed by a
\* two-byte right-to-left letter.
STexts == {<<Latin, Latin, Latin>>, <<Latin, Hebrew>>}
\* Ranges start..end: overlapping, nested, empty, past the end of the text.
SRanges == {<<0, 2>>, <<1, 3>>, <<1, 2>>, <<1, 1>>, <<2, 5>>}
SProperties == {Property("FontSize", 32), Property("FontSize", 16), Property("FontWeight", 700)}

\* The first builder of the context.
BeginStyled ==
    /\ ~building /\ obs = NoObservation
    /\ \E text \in STexts : ranged_builder(text, 1)
PushDefault ==
    /\ Len(hist) < MaxPushes
    /\ \E property \in SProperties : push_default(property)
Push ==
    /\ Len(hist) < MaxPushes
    /\ \E property \in SProperties, range \in SRanges : push(property, range)
BuildInto_ == build_into
Build == build

NextStyles == BeginStyled \/ PushDefault \/ Push \/ BuildInto_ \/ Build
SpecStyles == Init /\ [][NextStyles]_vars

\* ------------------------------------------------------------------------
\* The layout specification: one face, builders, line breaking, cursors.
\* ------------------------------------------------------------------------
Newline == Char(1, "B", 1)
\* "ab cd"; a letter, two right-to-left letters, a letter; "a b", a
\* mandatory break, "c"; two right-to-left letters.
LTexts == {<<Latin, Latin, Space, Latin, Latin>>,
           <<Latin, Hebrew, Hebrew, Latin>>,
           <<Latin, Space, Latin, Newline, Latin>>,
           <<Hebrew, Hebrew>>}
LRanges == {<<0, 2>>}
LMaxAdvances == {None, Some(1), Some(3), Some(4)}
Alignments == {"Start", "Middle", "End", "Justified"}
LXs == {0 - 1, 0, 1, 2, 3, 4, 5}
LYs == {0 - 1, 0, 2, 4, 7}

\* The face every text is shaped with.
LRegister ==
    /\ families = <<>>
    /\ add_fonts("A", Blob(<<Face(STRETCH_NORMAL, 400, StyleNormal)>>))
\* A builder on a text or on the empty text; a layout is filled once.
BeginLayout ==
    /\ ~building /\ families # <<>>
    /\ \E text \in LTexts \cup {<<>>} :
         /\ text # <<>> => layout.runs = <<>>
         /\ ranged_builder(text, 1)
LPushStack ==
    /\ rb.text # <<>> /\ hist = <<>> /\ obs = NoObservation
    /\ push_default(Property("FontStack", <<"A">>))
LPush ==
    /\ rb.text # <<>> /\ Len(hist) = 1 /\ obs = NoObservation
    /\ \E range \in LRanges : push(Property("FontWeight", 700), range)
LBuildInto ==
    /\ obs = NoObservation /\ (rb.text # <<>> => hist # <<>>)
    /\ build_into
LBuild ==
    /\ obs = NoObservation /\ (rb.text # <<>> => hist # <<>>)
    /\ build
LDropBuilder ==
    /\ obs # NoObservation
    /\ drop_builder
BreakAllLines ==
    /\ layout.runs # <<>> /\ layout.lines = <<>>
    /\ \E max_advance \in LMaxAdvances, alignment \in Alignments :
         break_all_lines(max_advance, alignment)
FromPoint ==
    /\ layout.lines # <<>>
    /\ \E x \in LXs, y \in LYs : cursor_from_point(x, y)
FromPosition ==
    /\ layout.lines # <<>>
    /\ \E position \in 0..(layout.text_len + 1) : cursor_from_position(position)

NextLayout ==
    \/ LRegister \/ BeginLayout \/ LPushStack \/ LPush \/ LBuildInto \/ LBuild
    \/ LDropBuilder \/ BreakAllLines \/ FromPoint \/ FromPosition
SpecLayout == Init /\ [][NextLayout]_vars

\* ------------------------------------------------------------------------
\* The fallback specification: two families, one builder, builds between
\* pushes.
\* ------------------------------------------------------------------------
FStacks == {<<"A">>, <<"B">>, <<"B", "A">>}

FRegister ==
    /\ ~building /\ obs = NoObservation
    /\ \E name \in Names : add_fonts(name, Blob(<<Face(STRETCH_NORMAL, 400, StyleNormal)>>))
FBegin ==
    /\ ~building /\ obs = NoObservation
    /\ ranged_builder(<<Latin, Latin>>, 1)
FPushStack ==
    /\ Len(hist) < MaxPushes
    /\ \E stack \in FStacks : push_default(Property("FontStack", stack))
FPushWeight ==
    /\ Len(hist) < MaxPushes
    /\ push(Property("FontWeight", 700), <<1, 2>>)
FBuildInto == build_into
FBuild == build

NextFallback == FRegister \/ FBegin \/ FPushStack \/ FPushWeight \/ FBuildInto \/ FBuild
SpecFallback == Init /\ [][NextFallback]_vars

\* ------------------------------------------------------------------------
\* The mapping specification: the cache is primed and clusters are mapped.
\* ------------------------------------------------------------------------
MCluster == <<Latin, Latin, Latin>>
MIdLists == {<<>>, <<0>>, <<1, 0>>, <<0, 1>>, <<0, 1, 0>>}
MAttributes == {DefaultAttributes, Attributes(STRETCH_NORMAL, 700, StyleNormal)}

MRegister ==
    /\ ~mapped.made
    /\ \E name \in Names : add_fonts(name, Blob(<<Face(STRETCH_NORMAL, 400, StyleNormal)>>))
MSelect ==
    /\ fonts # <<>> /\ ~mapped.made
    /\ \E ids \in MIdLists, attrs \in MAttributes : select_families(0, ids, attrs)
MMapCluster ==
    /\ fonts # <<>>
    /\ \E coverage \in [1..Len(fonts) -> 0..Len(MCluster)],
          unreadable \in SUBSET (0..(Len(fonts) - 1)) :
         map_cluster(Len(MCluster), coverage, unreadable)

NextMapping == MRegister \/ MSelect \/ MMapCluster
SpecMapping == Init /\ [][NextMapping]_vars

\* ------------------------------------------------------------------------
\* The runs specification: layouts are built and their runs are asked for
\* clusters.
\* ------------------------------------------------------------------------
GetCluster ==
    /\ layout.runs # <<>>
    /\ \E run_index \in 0..(Len(layout.runs) - 1), index \in 0..Len(layout.clusters) :
         run_get(run_index, index)

NextRuns ==
    \/ LRegister \/ BeginLayout \/ LPushStack \/ LPush \/ LBuildInto \/ LBuild
    \/ LDropBuilder \/ GetCluster
SpecRuns == Init /\ [][NextRuns]_vars

\* ------------------------------------------------------------------------
\* The breaking specification: a layout is built and broken cluster by
\* cluster; the loop of break_remaining runs on once it has started.
\* ------------------------------------------------------------------------
BMaxAdvances == {None, Some(0), Some(1), Some(3)}

BRegister == LRegister
BBegin == ~breaker.made /\ BeginLayout
BPushStack == LPushStack
BBuildInto == ~breaker.made /\ build_into
BreakLines ==
    /\ layout.runs # <<>>
    /\ ~breaker.made
    /\ \E max_advance \in BMaxAdvances : break_lines(max_advance)
BreakNext == break_cluster

NextBreak == BRegister \/ BBegin \/ BPushStack \/ BBuildInto \/ BreakLines \/ BreakNext
SpecBreak == Init /\ [][NextBreak]_vars /\ WF_vars(BreakNext)

\* ------------------------------------------------------------------------
\* Claims about the matcher
\* ------------------------------------------------------------------------
QFamily == families[q.family_id + 1]
QMembers == QFamily.fonts
ResultFont == fonts[q.result[1] + 1]

\* C5: a family whose only member is (NORMAL, 400, Normal) answers every
\* query, whatever stretch, weight and style it asks for, with that member.
C5_SingleFaceMatchesAll ==
    (/\ q.made
     /\ Len(QMembers) = 1
     /\ Triple(QMembers[1]) = <<STRETCH_NORMAL, 400, StyleNormal>>)
    => q.result = Some(QMembers[1].font_id)

\* The single regular face answered a query for an ultra expanded, weight
\* 800, oblique font.
C5_Witness ==
    /\ q.made
    /\ Len(QMembers) = 1
    /\ Triple(QMembers[1]) = <<STRETCH_NORMAL, 400, StyleNormal>>
    /\ q.attributes = Attributes(STRETCH_ULTRA_EXPANDED, 800, StyleOblique(14))
    /\ q.result = Some(QMembers[1].font_id)

\* The weight the weight axis prefers among the weights W for a request w.
PreferredWeight(W, w) ==
    LET inRange == {x \in W : w <= x /\ x <= 500}
        below == {x \in W : x < w}
        above500 == {x \in W : x > 500}
        atMost == {x \in W : x <= w}
        over == {x \in W : x > w}
        atLeast == {x \in W : x >= w}
    IN  IF 400 <= w /\ w <= 500
        THEN IF inRange # {} THEN MinOf(inRange)
             ELSE IF below # {} THEN MaxOf(below)
             ELSE MinOf(above500)
        ELSE IF w < 400
        THEN IF atMost # {} THEN MaxOf(atMost) ELSE MinOf(over)
        ELSE IF atLeast # {} THEN MinOf(atLeast) ELSE MaxOf(below)

QCandidates ==
    {k \in 1..Len(QMembers) :
        /\ QMembers[k].stretch = q.matching_stretch
        /\ QMembers[k].style = q.matching_style}

\* C6: among the members of the matched stretch and style the query returns
\* the one whose weight comes first in the order of the request's range
\* (400..500: smallest in [w, 500], else largest below w, else smallest above
\* 500; below 400: largest <= w, else smallest above; above 500: smallest
\* >= w, else largest below), and None only when there is no such member.
C6_WeightAxis ==
    q.made =>
        IF QCandidates = {}
        THEN q.result = None
        ELSE /\ q.result # None
             /\ \E k \in QCandidates :
                  /\ QMembers[k].font_id = q.result[1]
                  /\ QMembers[k].weight =
                       PreferredWeight({QMembers[j].weight : j \in QCandidates},
                                       q.attributes.weight)

\* A request of weight 450 found no member in [450, 500] and took the
\* largest of two lighter members.
C6_Witness ==
    /\ q.made
    /\ q.attributes.weight = 450
    /\ {QMembers[j].weight : j \in QCandidates} = {300, 400}
    /\ q.result # None
    /\ ResultFont.attributes.weight = 400

\* The style classes in the order a request prefers them.
StylePreference(style) ==
    IF style.kind = "Normal" THEN <<"Normal", "Oblique", "Italic">>
    ELSE IF style.kind = "Oblique" THEN <<"Oblique", "Italic", "Normal">>
    ELSE <<"Italic", "Oblique", "Normal">>

\* C7: among the members of the chosen stretch the query returns a font of
\* the first style class the family has in the preference order of the
\* request; an Oblique request takes an Oblique member of any angle.
C7_StyleAxis ==
    q.made =>
        LET kinds == {QMembers[k].style.kind :
                        k \in {j \in 1..Len(QMembers) :
                                 QMembers[j].stretch = q.matching_stretch}}
            pref == StylePreference(q.attributes.style)
            first == pref[MinOf({i \in 1..3 : pref[i] \in kinds})]
        IN  /\ q.result # None
            /\ ResultFont.attributes.style.kind = first
            /\ ResultFont.attributes.stretch = q.matching_stretch

\* C8: in a family with stretch variance a request <= NORMAL is not answered
\* with a stretch > NORMAL while a member <= NORMAL exists, and a request
\* > NORMAL is not answered with a stretch < NORMAL while a member >= NORMAL
\* exists.
C8_StretchAxisMirrored ==
    (q.made /\ QFamily.has_stretch) =>
        LET have == {QMembers[k].stretch : k \in 1..Len(QMembers)}
            chosen == IF q.result # None THEN ResultFont.attributes.stretch
                      ELSE q.matching_stretch
        IN  /\ (q.attributes.stretch <= STRETCH_NORMAL
                  /\ \E x \in have : x <= STRETCH_NORMAL)
                => chosen <= STRETCH_NORMAL
            /\ (q.attributes.stretch > STRETCH_NORMAL
                  /\ \E x \in have : x >= STRETCH_NORMAL)
                => chosen >= STRETCH_NORMAL

\* ------------------------------------------------------------------------
\* Claims about the registry
\* ------------------------------------------------------------------------
Members(fams, fmap, name) ==
    IF name \in DOMAIN fmap THEN fams[fmap[name] + 1].fonts ELSE <<>>
MemberTriples(fams, fmap, name) ==
    LET m == Members(fams, fmap, name) IN {Triple(m[k]) : k \in 1..Len(m)}

\* C1: after any sequence of add_fonts calls every id equals its position:
\* fonts[i].id = i, families[i].id = i, family_map[name] is the id of the one
\* family carrying that name, and every font's data_id indexes the blob of
\* data whose face slot `index` is the face the font was read from.
C1_IdsEqualPosition ==
    /\ \A i \in 1..Len(fonts) : fonts[i].id = i - 1
    /\ \A i \in 1..Len(families) : families[i].id = i - 1
    /\ DOMAIN family_map = {families[i].name : i \in 1..Len(families)}
    /\ \A i, j \in 1..Len(families) : families[i].name = families[j].name => i = j
    /\ \A n \in DOMAIN family_map :
          /\ family_map[n] < Len(families)
          /\ families[family_map[n] + 1].name = n
    /\ \A i \in 1..Len(fonts) :
          /\ fonts[i].data_id < Len(data)
          /\ LET blob == data[fonts[i].data_id + 1] IN
               /\ blob.parsed
               /\ fonts[i].index < Len(blob.faces)
               /\ blob.faces[fonts[i].index + 1].readable
               /\ Triple(blob.faces[fonts[i].index + 1]) = Triple(fonts[i].attributes)

\* A font read from the second slot of the second stored blob, after a call
\* whose blob held an unreadable or skipped slot and one accepted face.
C1_Witness ==
    /\ call.made
    /\ ret = Some(1)
    /\ Len(data) = 2
    /\ \E i \in 1..Len(fonts) : fonts[i].data_id = 1 /\ fonts[i].index = 1

NoDuplicateTriples(fams) ==
    \A f \in 1..Len(fams) : \A i, j \in 1..Len(fams[f].fonts) :
        Triple(fams[f].fonts[i]) = Triple(fams[f].fonts[j]) => i = j

\* C2: no family ever holds two members with the same (stretch, weight,
\* style): a face whose triple the named family holds already is skipped. The
\* count a call returns is the number of fonts it appended, each appended font
\* is one new member of its family with a triple that family did not hold,
\* and the fonts and members that were there are left as they were.
C2_DuplicatesSkipped ==
    [][ /\ NoDuplicateTriples(families')
        /\ ret' # None =>
             /\ ret' = Some(Len(fonts') - Len(fonts))
             /\ ret'[1] <= call'.readable
             /\ SubSeq(fonts', 1, Len(fonts)) = fonts
             /\ \A f \in 1..Len(families') :
                   LET old == IF f <= Len(families) THEN families[f].fonts ELSE <<>>
                       new == families'[f].fonts
                       added == {k \in 1..Len(new) : new[k].font_id >= Len(fonts)}
                   IN  /\ Len(new) = Len(old) + Cardinality(added)
                       /\ \A k \in added :
                             /\ Triple(new[k]) \notin {Triple(old[j]) : j \in 1..Len(old)}
                             /\ fonts'[new[k].font_id + 1].family_id = f - 1
                       /\ \A j \in 1..Len(old) : \E k \in 1..Len(new) : new[k] = old[j]
             /\ \A i \in (Len(fonts) + 1)..Len(fonts') :
                   \E k \in 1..Len(families'[fonts'[i].family_id + 1].fonts) :
                       families'[fonts'[i].family_id + 1].fonts[k].font_id = i - 1
      ]_vars

\* A call to a collection that has fonts returned a count smaller than the
\* number of readable faces of its blob: a face was skipped as a duplicate.
C2_Witness ==
    /\ call.made
    /\ ret # None
    /\ ret[1] < call.readable
    /\ Len(fonts) > 0

\* C3: each family's member list is ordered by weight ascending, and members
\* of equal weight appear in registration order (ascending FontId).
C3_SortedStable ==
    \A f \in 1..Len(families) : \A i, j \in 1..Len(families[f].fonts) :
        i < j =>
          LET a == families[f].fonts[i]
              b == families[f].fonts[j]
          IN  /\ a.weight <= b.weight
              /\ a.weight = b.weight => a.font_id < b.font_id

\* C4: add_fonts on a blob that does not parse, or parses to zero faces,
\* returns None and leaves families, family_map, fonts and data as they were.
C4_RejectedBlobLeavesNoTrace ==
    [][ (~call'.parsed \/ call'.empty) =>
            /\ ret' = None
            /\ UNCHANGED <<families, family_map, fonts, data>>
      ]_vars

\* A zero-face blob was offered to a collection that holds fonts and was
\* rejected.
C4_Witness ==
    /\ call.made
    /\ call.parsed
    /\ call.empty
    /\ Len(fonts) > 0
    /\ ret = None

\* ------------------------------------------------------------------------
\* Claims about the interner
\* ------------------------------------------------------------------------
CallsOf(op) == {i \in 1..Len(hist) : hist[i].op = op}
Elements(s) == {s[k] : k \in 1..Len(s)}
Count(s, x) == Cardinality({k \in 1..Len(s) : s[k] = x})
\* The two lists hold the same multiset of (tag, value) pairs.
IsPermutation(s, t) ==
    /\ Len(s) = Len(t)
    /\ \A x \in Elements(s) \cup Elements(t) : Count(s, x) = Count(t, x)
WithTag(s, tag) == SelectSeq(s, LAMBDA x : x.tag = tag)
\* Settings that share a tag come in the same order in both lists.
SameOrderPerTag(s, t) ==
    \A tag \in {x.tag : x \in Elements(s) \cup Elements(t)} :
        WithTag(s, tag) = WithTag(t, tag)
NoNaN(s) == \A k \in 1..Len(s) : s[k].value # NaN

\* C9 (as stated): within one build, resolve_variations on two non-empty
\* settings lists that are permutations of each other, lists with one tag
\* twice under different values included, returns equal handles.
C9_PermutationsShareHandle ==
    \A i, j \in CallsOf("variations") :
        (/\ hist[i].input # <<>>
         /\ IsPermutation(hist[i].input, hist[j].input))
        => hist[i].handle = hist[j].handle

\* C9 (amended): within one build, resolve_variations on two non-empty
\* settings lists that are permutations of each other returns equal handles
\* when the settings that share a tag come in the same order in both lists
\* (as they do when every tag occurs once) and no value is NaN.
C9_OrderPreservingPermutationsShareHandle ==
    \A i, j \in CallsOf("variations") :
        (/\ hist[i].input # <<>>
         /\ IsPermutation(hist[i].input, hist[j].input)
         /\ SameOrderPerTag(hist[i].input, hist[j].input)
         /\ NoNaN(hist[i].input))
        => hist[i].handle = hist[j].handle

\* Two calls of one build on differently ordered lists of the same settings
\* got the same stored handle, with another entry interned before them.
C9_Witness ==
    \E i, j \in CallsOf("variations") :
        /\ i < j
        /\ hist[i].input # hist[j].input
        /\ IsPermutation(hist[i].input, hist[j].input)
        /\ SameOrderPerTag(hist[i].input, hist[j].input)
        /\ NoNaN(hist[i].input)
        /\ hist[i].handle = hist[j].handle
        /\ hist[i].handle.index > 0

Caches == {rcx.families, rcx.variations, rcx.features}

\* C10: every resolve call whose resolved list is empty returns the sentinel
\* handle (index = !0), the handle of the default ResolvedStyle, which is the
\* handle of no stored entry; this covers resolve_variations and
\* resolve_features on empty input and resolve_stack on a stack that is
\* empty or names unknown families only; no empty slice is stored as an entry.
C10_EmptyListsGetSentinel ==
    /\ \A i \in 1..Len(hist) :
         hist[i].list = <<>> => hist[i].handle = ResolvedDefault
    /\ \A c \in Caches : CacheGet(c, ResolvedDefault) = None
    /\ \A c \in Caches : \A k \in 1..Len(c.entries) : c.entries[k][1] < c.entries[k][2]


\* ------------------------------------------------------------------------
\* Claims about the ranged styles
\* ------------------------------------------------------------------------
\* A build of the current builder got as far as finish.
Finished == obs.op \in {"build_into", "build"} /\ obs.ret # "false" /\ obs.ret # "None"
TextLen == ByteLen(rb.text)
\* The index (from 0) of the span that holds byte p.
SpanOf(p) == CHOOSE i \in 0..(Len(styles) - 1) :
                 styles[i + 1].range[1] <= p /\ p < styles[i + 1].range[2]
\* The spans tile [0, len): from 0, each from the end of the one before,
\* none empty, to len.
Tiles(sp, len) ==
    /\ len > 0 => Len(sp) > 0
    /\ \A i \in 1..Len(sp) :
         /\ sp[i].range[1] < sp[i].range[2]
         /\ sp[i].range[1] = IF i = 1 THEN 0 ELSE sp[i - 1].range[2]
         /\ i = Len(sp) => sp[i].range[2] = len

\* C12: after any pushes and finish the spans partition [0, text_len): the
\* first starts at 0, each starts where the one before ends, none is empty,
\* the last ends at text_len; and build_into gives every character the index
\* of the span that contains it.
C12_SpansPartitionText ==
    Finished =>
        /\ Tiles(styles, TextLen)
        /\ obs.ret # "panic"
        /\ \A k \in 1..Len(rb.text) : info[k].style = SpanOf(CharStart(rb.text, k))

\* The push and push_default calls the last build has seen.
SeenCalls == SubSeq(hist, 1, obs.calls)
KindOf ==
    [font_stack |-> "FontStack", font_size |-> "FontSize", font_stretch |-> "FontStretch",
     font_style |-> "FontStyle", font_weight |-> "FontWeight",
     font_variations |-> "FontVariations", font_features |-> "FontFeatures",
     locale |-> "Locale", line_height |-> "LineHeight", word_spacing |-> "WordSpacing",
     letter_spacing |-> "LetterSpacing"]
\* The value of a field at byte p: that of the last push of its property over
\* a range that holds p, else that of the last push_default of the property,
\* else the default's.
ExpectedValue(calls, field, p) ==
    LET over == {i \in 1..Len(calls) :
                    /\ calls[i].op = "push"
                    /\ calls[i].input.kind = KindOf[field]
                    /\ calls[i].list[1] <= p /\ p < calls[i].list[2]}
        dflt == {i \in 1..Len(calls) :
                    calls[i].op = "push_default" /\ calls[i].input.kind = KindOf[field]}
    IN  IF over # {} THEN calls[MaxOf(over)].handle.value
        ELSE IF dflt # {} THEN calls[MaxOf(dflt)].handle.value
        ELSE DefaultResolvedStyle[field]
ExpectedStyle(calls, p) ==
    [field \in DOMAIN DefaultResolvedStyle |-> ExpectedValue(calls, field, p)]

\* C13: at every byte p of the text the style of the span that holds p is
\* the default style, as all push_default calls left it, with every overlay
\* whose range [start, end) holds p applied in insertion order, so the last
\* overlay of a property over p wins however push and push_default were
\* interleaved; and two adjacent spans never carry equal styles.
C13_LastOverlayWins ==
    Finished =>
        /\ \A p \in 0..(TextLen - 1) :
             \E i \in 1..Len(styles) :
                /\ styles[i].range[1] <= p /\ p < styles[i].range[2]
                /\ styles[i].style = ExpectedStyle(SeenCalls, p)
        /\ \A i \in 1..(Len(styles) - 1) : styles[i].style # styles[i + 1].style

\* A build after a push_default that followed an overlay of the same
\* property: the overlay still wins on its range, the new default elsewhere.
C13_Witness ==
    /\ Finished
    /\ Len(styles) > 1
    /\ \E i, j \in 1..obs.calls :
         /\ i < j
         /\ hist[i].op = "push" /\ hist[j].op = "push_default"
         /\ hist[i].input.kind = hist[j].input.kind
         /\ hist[i].input.value # hist[j].input.value
         /\ hist[i].list[1] < hist[i].list[2]

\* C19: after build_into on non-empty text, base_level is true iff the
\* paragraph base direction resolved for the text is right-to-left; for a
\* left-to-right paragraph it is false.
C19_BaseLevelIsRtl ==
    (obs.op = "build_into" /\ obs.ret = "true") =>
        (layout.base_level <=> (bidi.base_level # 0))

\* ------------------------------------------------------------------------
\* Claims about the layout, its lines and cursors
\* ------------------------------------------------------------------------
\* C11: for empty text build returns None and build_into returns false, and
\* after build_into the target layout holds no runs, clusters, glyphs or
\* lines, whatever it held before the call.
C11_EmptyTextClearsLayout ==
    /\ (obs.op = "build" /\ rb.text = <<>>) => obs.ret = "None"
    /\ (obs.op = "build_into" /\ rb.text = <<>>) =>
          /\ obs.ret = "false"
          /\ layout.runs = <<>> /\ layout.clusters = <<>>
          /\ layout.glyphs = <<>> /\ layout.lines = <<>>

\* build_into on the empty text with a target that an earlier build filled.
C11_Witness ==
    /\ obs.op = "build_into" /\ rb.text = <<>>
    /\ obs.filled
    /\ layout.runs = <<>>

\* C14: after break_all_lines with any max_advance and any alignment the
\* text ranges of the lines, in line-index order, partition [0, text_len):
\* the first starts at 0, each starts where the one before ends, the last
\* ends at text_len.
C14_LinesPartitionText ==
    layout.lines # <<>> =>
        \A n \in 1..Len(layout.lines) :
            /\ layout.lines[n].text_range[1] < layout.lines[n].text_range[2]
            /\ layout.lines[n].text_range[1] =
                  IF n = 1 THEN 0 ELSE layout.lines[n - 1].text_range[2]
            /\ n = Len(layout.lines) => layout.lines[n].text_range[2] = layout.text_len

\* Three lines of one run: the run is split by a soft break and again by a
\* mandatory break.
C14_Witness ==
    /\ Len(layout.lines) = 3
    /\ Len(layout.runs) = 1
    /\ \E i \in 1..Len(layout.clusters) :
          /\ layout.clusters[i].class = "B"
          /\ layout.clusters[i].text_range[2] = layout.lines[2].text_range[2]

\* The lowest bidi level among the runs i..j of a line, taken in logical
\* order.
LowestLevel(lrs, i, j) ==
    MinOf({lr.bidi_level : lr \in {x \in {lrs[n] : n \in 1..Len(lrs)} :
                                       lrs[i].run_index <= x.run_index
                                       /\ x.run_index <= lrs[j].run_index}})
\* The starts of the text ranges of the clusters, in the order given.
Starts(lay, cluster_indices) ==
    [j \in 1..Len(cluster_indices) |-> lay.clusters[cluster_indices[j] + 1].text_range[1]]
Ascending(s) == \A j \in 1..(Len(s) - 1) : s[j] < s[j + 1]
Descending(s) == \A j \in 1..(Len(s) - 1) : s[j] > s[j + 1]

\* C15: on every line of a layout with has_bidi the visual order of the runs
\* is the L2 permutation of their logical order: two runs of the line are
\* swapped exactly when the lowest level from the one to the other is odd
\* (so runs 0,1,0 keep their logical order); the clusters of a run are
\* visited from its end exactly when its level is odd; runs() is in logical
\* text order.
C15_VisualOrderIsL2 ==
    (layout.has_bidi /\ layout.lines # <<>>) =>
        /\ \A n \in 1..Len(layout.lines) :
              LET a == layout.lines[n].run_range[1]
                  b == layout.lines[n].run_range[2]
                  lrs == SubSeq(layout.line_runs, a + 1, b)
              IN  \A i, j \in 1..Len(lrs) :
                     lrs[i].run_index < lrs[j].run_index =>
                        ((j < i) <=> (LowestLevel(lrs, i, j) % 2 = 1))
        /\ \A n \in 1..Len(layout.lines) :
              \A run \in {LineRuns(layout, layout.lines[n])[j] :
                             j \in 1..Len(LineRuns(layout, layout.lines[n]))} :
                 /\ run.data.bidi_level % 2 = 1 =>
                       Descending(Starts(layout, visual_clusters(run)))
                 /\ run.data.bidi_level % 2 = 0 =>
                       Ascending(Starts(layout, visual_clusters(run)))
                 /\ Ascending(Starts(layout, clusters(run)))
        /\ \A k \in 1..(Len(LayoutRuns(layout)) - 1) :
              RunTextRange(LayoutRuns(layout)[k])[2] = RunTextRange(LayoutRuns(layout)[k + 1])[1]

\* A line of two adjacent right-to-left runs, which L2 swaps.
C15_Witness ==
    /\ layout.has_bidi
    /\ \E n \in 1..Len(layout.lines) :
          LET a == layout.lines[n].run_range[1]
          IN  /\ layout.lines[n].run_range[2] - a = 2
              /\ layout.line_runs[a + 1].run_index = 1
              /\ layout.line_runs[a + 2].run_index = 0
              /\ Len(visual_clusters(LineRuns(layout, layout.lines[n])[1])) > 0

\* The clusters of a line in visual order: run by run as the line holds
\* them, the part of each run that is on the line, from its end if the
\* run's level is odd.
LineVisual(lay, line) ==
    Flatten([r \in 1..(line.run_range[2] - line.run_range[1]) |->
                LET lr == lay.line_runs[line.run_range[1] + r]
                IN  [j \in 1..(lr.cluster_range[2] - lr.cluster_range[1]) |->
                        IF lr.bidi_level % 2 = 1 THEN lr.cluster_range[2] - j
                        ELSE lr.cluster_range[1] + j - 1]])
\* The far edge of a cluster on its line: the line's offset and the advances
\* of the clusters up to it in visual order.
FarEdge(lay, line, cluster) ==
    LET order == LineVisual(lay, line)
        at == CHOOSE k \in 1..Len(order) : order[k] = cluster
    IN  line.metrics.offset + SumAdvance([k \in 1..at |-> lay.clusters[order[k] + 1]])
\* The line whose band holds y: the first whose baseline is not above y.
LineAt(lay, y) ==
    MinOf({n \in 1..Len(lay.lines) : y <= lay.lines[n].metrics.baseline})

\* C16: from_point with y inside a line (0 <= y <= the line's baseline) and
\* x at or beyond the far edge of the last visual cluster of the line gives
\* a cursor on that line with is_inside true and offset equal to the line's
\* trailing edge, the line's offset plus the advances of its clusters.
C16_PointBeyondLineEnd ==
    (/\ cursor.op = "from_point"
     /\ cursor.y >= 0
     /\ \E n \in 1..Len(layout.lines) : cursor.y <= layout.lines[n].metrics.baseline
     /\ LET line == layout.lines[LineAt(layout, cursor.y)]
            order == LineVisual(layout, line)
        IN  cursor.x >= FarEdge(layout, line, order[Len(order)]))
    => LET line == layout.lines[LineAt(layout, cursor.y)]
       IN  /\ cursor.result.path.line_index = LineAt(layout, cursor.y) - 1
           /\ cursor.result.is_inside
           /\ cursor.result.offset = line.metrics.offset + line.metrics.advance

\* C17: from_position with pos >= text_len gives a cursor on the last line
\* with is_inside and is_leading false, on the last cluster of the text,
\* with offset equal to the far edge of that cluster on its line; on a line
\* that holds only the tail of a run split by a soft break this is the
\* line's advance.
C17_PositionPastEnd ==
    (cursor.op = "from_position" /\ cursor.position >= layout.text_len) =>
        LET last == layout.lines[Len(layout.lines)]
            c == Len(layout.clusters) - 1
        IN  /\ cursor.result.path.line_index = Len(layout.lines) - 1
            /\ ~cursor.result.is_inside
            /\ ~cursor.result.is_leading
            /\ CursorTextRange(cursor.result) = layout.clusters[c + 1].text_range
            /\ cursor.result.offset = FarEdge(layout, last, c)

\* C18: from_position at the start of the text range of from_position(p)
\* gives a cursor whose text range starts at the same byte, for p inside the
\* text, in the middle of a multi-byte cluster, or >= text_len.
C18_PositionIdempotent ==
    (cursor.op = "from_position" /\ layout.lines # <<>>) =>
        CursorTextRange(from_position(layout, CursorTextRange(cursor.result)[1]))[1]
            = CursorTextRange(cursor.result)[1]

\* A position inside a two-byte cluster that is not the last of the text.
C18_Witness ==
    /\ cursor.op = "from_position" /\ layout.lines # <<>>
    /\ cursor.result.text_start < cursor.position
    /\ cursor.position < cursor.result.text_end
    /\ cursor.result.text_end < layout.text_len

\* The cluster and the line whose text ranges hold the byte position.
ClusterAt(lay, position) ==
    CHOOSE c \in 0..(Len(lay.clusters) - 1) : Contains(lay.clusters[c + 1].text_range, position)
LineOf(lay, position) ==
    CHOOSE n \in 1..Len(lay.lines) : Contains(lay.lines[n].text_range, position)

\* C22: from_position with pos < text_len gives is_leading and is_inside
\* true and an offset equal to the line's offset plus the advances of all
\* clusters that visually precede the target cluster on its line, the
\* clusters of the runs before the target's run on that line included.
C22_PositionOffsetCountsEarlierRuns ==
    (/\ cursor.op = "from_position" /\ layout.lines # <<>>
     /\ cursor.position < layout.text_len) =>
        LET c == ClusterAt(layout, cursor.position)
            line == layout.lines[LineOf(layout, cursor.position)]
        IN  /\ cursor.result.is_leading
            /\ cursor.result.is_inside
            /\ cursor.result.offset
                 = FarEdge(layout, line, c) - layout.clusters[c + 1].advance

\* The last cursor was made from the layout as it is and its walk recorded a
\* cluster.
TargetsCluster ==
    /\ cursor.op \in {"from_point", "from_position"}
    /\ layout.lines # <<>>
    /\ cursor.result.text_start < cursor.result.text_end

\* C23: for a cursor from from_point or from_position that targets a
\* cluster, CursorPath::cluster(layout) on its path yields the cluster whose
\* text range equals cursor.text_range(), for left-to-right and
\* right-to-left runs and for runs whose cluster_range does not start at
\* cluster 0 of the layout.
C23_PathResolvesToTarget ==
    TargetsCluster =>
        LET found == CursorPathCluster(layout, cursor.result.path)
        IN  /\ found # None
            /\ layout.clusters[found[1].data + 1].text_range = CursorTextRange(cursor.result)

\* The run of the layout that holds the cluster with the cursor's text range.
TargetRun ==
    CHOOSE k \in 1..Len(layout.runs) :
        \E c \in layout.runs[k].cluster_range[1]..(layout.runs[k].cluster_range[2] - 1) :
            layout.clusters[c + 1].text_range = CursorTextRange(cursor.result)

\* C24: for a cursor from from_point or from_position that targets a
\* cluster, Cursor::is_rtl() is true iff the run that holds the target
\* cluster is right-to-left (its bidi level is odd).
C24_CursorIsRtlMatchesRun ==
    TargetsCluster =>
        (CursorIsRtl(cursor.result) <=> layout.runs[TargetRun].bidi_level % 2 = 1)

\* C25: Run::get(index) returns a cluster only if index < run.len(), and the
\* cluster belongs to the run (its position lies in the run's
\* cluster_range); for index >= run.len() it returns None, also when the
\* layout holds clusters of later runs after the run's range.
C25_GetStaysInsideRun ==
    got.made =>
        /\ got.result # None =>
              /\ got.index < RunLen(got.run)
              /\ Contains(got.run.data.cluster_range, got.result[1].data)
        /\ got.index >= RunLen(got.run) => got.result = None

\* ------------------------------------------------------------------------
\* Claims about the fallback cache
\* ------------------------------------------------------------------------
\* The font the candidates of the span's own stack and attributes give.
FreshFont(style) ==
    LET fresh == QueryFamilies(families, StackOf(rcx, style.font_stack), SpanAttributes(style))
    IN  IF fresh = <<>> THEN None ELSE Some(fresh[1].id)

\* C20: every build or build_into finds the fallback cache in its reset
\* state (no primed pair, no candidates), also a second call on the same
\* RangedBuilder after more pushes, and no run of the build is shaped with
\* candidates primed for an earlier build: its font is a candidate of its
\* own span's stack.
C20_CacheResetAtBuild ==
    (obs.op \in {"build_into", "build"} /\ obs.ret \in {"true", "Some"}) =>
        /\ obs.entry = CacheReset
        /\ \A k \in 1..Len(layout.runs) :
              layout.runs[k].font = FreshFont(styles[layout.runs[k].style_index + 1].style)

\* ------------------------------------------------------------------------
\* Claims about mapping a cluster
\* ------------------------------------------------------------------------
\* The candidates of the last map_cluster call with the given status.
WithStatus(status) == {i \in 1..Len(mapped.statuses) : mapped.statuses[i] = status}

\* C21: FontCache::map_cluster walks the primed candidates in order and
\* skips the errored ones; it returns the first candidate whose status is
\* Complete and consults no later candidate; without a Complete candidate
\* it returns the last candidate that reported Keep; and it returns None
\* when every candidate reports Discard or is errored, or the list is empty.
C21_FirstCompleteElseLastKeep ==
    mapped.made =>
        LET e == mapped.entry
            st == mapped.statuses
        IN  /\ Len(st) <= Len(e)
            /\ \A i \in 1..Len(st) :
                  /\ st[i] = "Errored" <=>
                        \/ e[i].error
                        \/ ~e[i].loaded /\ e[i].id \in mapped.unreadable
                  /\ st[i] = "Complete" <=>
                        /\ st[i] # "Errored"
                        /\ mapped.coverage[e[i].id + 1] >= mapped.cluster_len
            /\ IF WithStatus("Complete") # {}
               THEN /\ Len(st) = MinOf(WithStatus("Complete"))
                    /\ mapped.result # None
                    /\ mapped.result[1].font = e[Len(st)].id
                    /\ \A j \in (Len(st) + 1)..Len(e) : font_cache.selected_fonts[j] = e[j]
               ELSE /\ Len(st) = Len(e)
                    /\ IF WithStatus("Keep") # {}
                       THEN /\ mapped.result # None
                            /\ mapped.result[1].font = e[MaxOf(WithStatus("Keep"))].id
                       ELSE mapped.result = None
\* Two candidates report Keep, none is Complete, and the later one is
\* returned.
C21_Witness ==
    /\ mapped.made
    /\ WithStatus("Complete") = {}
    /\ Cardinality(WithStatus("Keep")) = 2
    /\ mapped.result # None
    /\ mapped.result[1].font = mapped.entry[MaxOf(WithStatus("Keep"))].id
    /\ mapped.result[1].font # mapped.entry[MinOf(WithStatus("Keep"))].id

\* ------------------------------------------------------------------------
\* Claims about the breaker
\* ------------------------------------------------------------------------
\* The width of the clusters s..i of a line without its trailing whitespace.
EffectiveWidth(cs, s, i) ==
    AdvanceOf(cs, s, MaxOf({j \in (s + 1)..i : cs[j].class # "WS"} \cup {s}))
\* The clusters of the line s..e at which the budget is exceeded; the
\* advance of a mandatory break is not added to the width.
OverBudget(cs, s, e, max_advance) ==
    {i \in (s + 1)..e : cs[i].class # "B" /\ EffectiveWidth(cs, s, i) > max_advance}
\* Where a line that is over budget at cluster x may be closed: after the
\* first break opportunity or mandatory break from x on, or at the end.
FirstStop(cs, x) ==
    MinOf({j \in x..Len(cs) : cs[j].class \in {"WS", "B"}} \cup {Len(cs)})
\* Every line closed so far holds a cluster, starts where the line before
\* ended and ends at a break opportunity, a mandatory break or the end of
\* the text; a line that went over budget had seen no break opportunity
\* before and runs on to the first stop after.
LinesProgress ==
    \A n \in 1..Len(breaker.lines) :
        LET cs == layout.clusters
            s == breaker.lines[n][1]
            e == breaker.lines[n][2]
            over == OverBudget(cs, s, e, breaker.max_advance)
        IN  /\ s < e /\ e <= Len(cs)
            /\ s = IF n = 1 THEN 0 ELSE breaker.lines[n - 1][2]
            /\ e = Len(cs) \/ cs[e].class \in {"WS", "B"}
            /\ over # {} =>
                  /\ \A j \in (s + 1)..(MinOf(over) - 1) : cs[j].class # "WS"
                  /\ e = FirstStop(cs, MinOf(over))
\* The breaker is done: its lines are those of break_all_lines.
BreakerDone ==
    /\ breaker.made /\ ~breaker.active
    /\ breaker.lines = BreakFrom(layout.clusters, 0, breaker.max_advance, <<>>)

\* C26: greedy line breaking terminates and makes progress for every
\* max_advance, one smaller than the advance of any cluster and text without
\* break opportunity included: the breaker started is done after finitely
\* many steps, every line holds at least one cluster, and a line over budget
\* that has seen no break opportunity is not closed there but runs on to a
\* break opportunity, a mandatory break or the end of the text.
C26_BreakingTerminates ==
    /\ [](LinesProgress /\ (breaker.made /\ ~breaker.active => BreakerDone))
    /\ (breaker.active ~> BreakerDone)
\* The budget is below every advance, and a line that went over it at its
\* first cluster was closed at a break opportunity before the end.
C26_Witness ==
    /\ BreakerDone
    /\ breaker.max_advance = 0
    /\ \E n \in 1..Len(breaker.lines) :
          /\ breaker.lines[n][2] < Len(layout.clusters)
          /\ breaker.lines[n][1] + 1
               \in OverBudget(layout.clusters, breaker.lines[n][1], breaker.lines[n][2], 0)

============================================================================
